---- MODULE Spec2Model ----
(***************************************************************************)
(* BitPacker: a bit-granular Packer / Unpacker pair over a growable byte   *)
(* buffer (ResizableUint8Array) and the bit codec functions of             *)
(* bitMethods.ts.                                                          *)
(*                                                                         *)
(* JavaScript numbers go up to 2^32 here, beyond the integers of the model *)
(* checker, so a number is a record [hi, lo, frac] that stands for         *)
(*     hi * 65536 + lo + frac / 2     (lo in 0..65535, frac in {0, 1}).    *)
(* Bits, bytes stored in a Uint8Array, lengths and indices are plain       *)
(* integers.                                                               *)
(***************************************************************************)
EXTENDS Integers, Sequences, FiniteSets, TLC

(***************************************************************************)
(* Evaluation.  TLC may evaluate an operator's argument every time the     *)
(* operator's body uses it, so a value that is expensive to compute is     *)
(* computed once and bound to a name with Bind: Bind(v, F) is F(v),        *)
(* LET x == v IN F(x) with v evaluated once.  A loop of the code is a      *)
(* recursive operator over one record of the loop's variables; the loops   *)
(* write the binding out, CHOOSE y \in {F(x) : x \in {v}} : TRUE, which     *)
(* nests less deeply than the call of Bind.                                *)
(***************************************************************************)
Bind(v, F(_)) == CHOOSE y \in {F(x) : x \in {v}} : TRUE

(***************************************************************************)
(* Numbers                                                                 *)
(***************************************************************************)
Half == 2 ^ 16

Num(h, l) == [hi |-> h, lo |-> l, frac |-> 0]

\* a small integer as a number
FromInt(n) == [hi |-> n \div Half, lo |-> n % Half, frac |-> 0]

\* n + 1/2
PlusHalf(n) == [hi |-> n \div Half, lo |-> n % Half, frac |-> 1]

Zero == [hi |-> 0, lo |-> 0, frac |-> 0]

One == [hi |-> 0, lo |-> 1, frac |-> 0]

IsInteger(x) == x.frac = 0

\* x < y
Less(x, y) ==
    \/ x.hi < y.hi
    \/ x.hi = y.hi /\ x.lo < y.lo
    \/ x.hi = y.hi /\ x.lo = y.lo /\ x.frac < y.frac

\* x >= y
GreaterEq(x, y) == ~Less(x, y)

\* x > y
Greater(x, y) == Less(y, x)

Add(x, y) ==
    Bind(x.lo + y.lo + ((x.frac + y.frac) \div 2), LAMBDA l :
        [hi |-> x.hi + y.hi + (l \div Half), lo |-> l % Half,
         frac |-> (x.frac + y.frac) % 2])

Neg(x) ==
    \* x.lo + x.frac / 2 negated, in halves
    Bind(0 - (2 * x.lo + x.frac), LAMBDA l :
        [hi |-> (l \div (2 * Half)) - x.hi,
         lo |-> (l % (2 * Half)) \div 2,
         frac |-> l % 2])

Sub(x, y) == Bind(Neg(y), LAMBDA n : Add(x, n))

\* 2 ** k for 0 <= k <= 32
Pow2(k) == IF k < 16 THEN Num(0, 2 ^ k) ELSE Num(2 ^ (k - 16), 0)

(***************************************************************************)
(* The 32-bit integer operators of JavaScript (&, |, <<, >>, >>>)          *)
(***************************************************************************)
\* a 16-bit pattern as a signed 16-bit integer
Signed16(h) == Bind(h % Half, LAMBDA m : IF m >= Half \div 2 THEN m - Half ELSE m)

\* the integer part of x, rounded towards zero
Trunc(x) ==
    IF x.frac = 1 /\ x.hi < 0
    THEN Add([x EXCEPT !.frac = 0], One)
    ELSE [x EXCEPT !.frac = 0]

ToInt32(x) ==
    IF x.frac = 0 /\ x.hi >= 0 - (Half \div 2) /\ x.hi < Half \div 2
    THEN x      \* an int32 already
    ELSE Bind(Trunc(x), LAMBDA t : Num(Signed16(t.hi), t.lo))

ToUint32(x) == Bind(Trunc(x), LAMBDA t : Num(t.hi % Half, t.lo))

RECURSIVE And16(_, _, _)
\* the bitwise and of two n-bit patterns
And16(a, b, n) ==
    IF n = 0 \/ a = 0 \/ b = 0 THEN 0
    ELSE ((a % 2) * (b % 2)) + 2 * And16(a \div 2, b \div 2, n - 1)

RECURSIVE Or16(_, _, _)
\* the bitwise or of two n-bit patterns
Or16(a, b, n) ==
    IF n = 0 THEN 0
    ELSE IF a = 0 THEN b
    ELSE IF b = 0 THEN a
    ELSE (IF a % 2 = 1 \/ b % 2 = 1 THEN 1 ELSE 0) + 2 * Or16(a \div 2, b \div 2, n - 1)

\* x & y
BitAnd(x, y) ==
    Bind(<<ToInt32(x), ToInt32(y)>>, LAMBDA t :
        Num(Signed16(And16(t[1].hi % Half, t[2].hi % Half, 16)),
            And16(t[1].lo, t[2].lo, 16)))

\* x | y
BitOr(x, y) ==
    Bind(<<ToInt32(x), ToInt32(y)>>, LAMBDA t :
        Num(Signed16(Or16(t[1].hi % Half, t[2].hi % Half, 16)),
            Or16(t[1].lo, t[2].lo, 16)))

\* x << k   (0 <= k < 16)
Shl(x, k) ==
    Bind(ToInt32(x), LAMBDA a :
        Num(Signed16((a.hi % Half) * (2 ^ k) + ((a.lo * (2 ^ k)) \div Half)),
            (a.lo * (2 ^ k)) % Half))

\* x >> k   (0 <= k < 32), sign-propagating
Sar(x, k) ==
    Bind(ToInt32(x), LAMBDA a :
        IF k < 16
        THEN Num(a.hi \div (2 ^ k),
                 ((a.hi % (2 ^ k)) * (2 ^ (16 - k))) + (a.lo \div (2 ^ k)))
        ELSE Num((a.hi \div (2 ^ (k - 16))) \div Half, (a.hi \div (2 ^ (k - 16))) % Half))

(***************************************************************************)
(* bitMethods.ts: the bit codec functions.  A function that can throw      *)
(* returns a record [err, bits] or [err, ret]; err = "none" when it        *)
(* returns normally.                                                       *)
(***************************************************************************)
Bit == {0, 1}

RECURSIVE getUintAcc(_)
\* the reduce of getUint: s.n turns from index s.i on, s.acc the accumulator
\* so far; the turns are walked by halves
getUintAcc(s) ==
    CASE s.n <= 0 -> s
      [] s.n = 1 ->
            [s EXCEPT !.acc = BitOr(Shl(s.acc, 1), FromInt(s.bits[s.i])),
                      !.i = s.i + 1,
                      !.n = 0]
      [] s.n > 1 ->
            CHOOSE y \in {getUintAcc([r EXCEPT !.n = s.n - s.n \div 2]) :
                            r \in {getUintAcc([s EXCEPT !.n = s.n \div 2])}} : TRUE

\* getUint without the final >>> 0: the accumulator as the signed 32-bit
\* integer the reduce leaves
getUintSigned(bits) ==
    Bind([bits |-> bits, i |-> 1, n |-> Len(bits), acc |-> Zero], getUintAcc).acc

\* bits.reduce((acc, curr) => (acc << 1) | curr, 0) >>> 0
getUint(bits) ==
    Bind([bits |-> bits, i |-> 1, n |-> Len(bits), acc |-> Zero], LAMBDA s :
        Bind(getUintAcc(s).acc, ToUint32))

\* num === 0 ? 0 : 1
toBit(num) == IF num = Zero THEN 0 ELSE 1

\* parseUint with num > 2 ** length for its first test
parseUintUpTo(num, length) ==
    IF Greater(num, Pow2(length))
    THEN [err |-> "RangeError", bits |-> <<>>]
    ELSE IF Less(num, Zero)
    THEN [err |-> "RangeError", bits |-> <<>>]
    ELSE Bind(BitAnd(num, Sub(Pow2(length), One)), LAMBDA masked :
            [err  |-> "none",
             bits |-> [i \in 1..length |->
                         toBit(BitAnd(Sar(masked, length - i), One))]])

parseUint(num, length) ==
    IF GreaterEq(num, Pow2(length))
    THEN [err |-> "RangeError", bits |-> <<>>]
    ELSE IF Less(num, Zero)
    THEN [err |-> "RangeError", bits |-> <<>>]
    ELSE Bind(BitAnd(num, Sub(Pow2(length), One)), LAMBDA masked :
            [err  |-> "none",
             bits |-> [i \in 1..length |->
                         toBit(BitAnd(Sar(masked, length - i), One))]])

parseUint8(num) == parseUint(num, 8)

parseUint16(num) == parseUint(num, 16)

parseUint32(num) == parseUint(num, 32)

\* getInt without the sign branch: the unsigned value whatever the first bit
getIntUnsigned(bits) ==
    IF Len(bits) = 0
    THEN [err |-> "RangeError", ret |-> Zero]
    ELSE [err |-> "none", ret |-> getUint(bits)]

getInt(bits) ==
    IF Len(bits) = 0
    THEN [err |-> "RangeError", ret |-> Zero]
    ELSE Bind(getUint(bits), LAMBDA unsignedValue :
            IF bits[1] = 0
            THEN [err |-> "none", ret |-> unsignedValue]
            ELSE [err |-> "none", ret |-> Sub(unsignedValue, Pow2(Len(bits)))])

\* parseSignedInt writing a negative number as a sign bit and its magnitude
parseSignedIntMagnitude(num, length) ==
    IF Less(num, Neg(Pow2(length - 1))) \/ Greater(num, Sub(Pow2(length - 1), One))
    THEN [err |-> "RangeError", bits |-> <<>>]
    ELSE Bind(IF Less(num, Zero) THEN Sub(Pow2(length - 1), num) ELSE num, LAMBDA rebased :
            parseUint(rebased, length))

parseSignedInt(num, length) ==
    IF Less(num, Neg(Pow2(length - 1))) \/ Greater(num, Sub(Pow2(length - 1), One))
    THEN [err |-> "RangeError", bits |-> <<>>]
    ELSE Bind(IF Less(num, Zero) THEN Add(Pow2(length), num) ELSE num, LAMBDA rebased :
            parseUint(rebased, length))

parseInt8(num) == parseSignedInt(num, 8)

parseInt16(num) == parseSignedInt(num, 16)

parseInt32(num) == parseSignedInt(num, 32)

\* Floating point numbers are names: "0", "-1.5", "pi" (Math.PI), "pi32"
\* (Math.fround(Math.PI) = 3.1415927410125732), "min32" (2^-149, the least
\* positive binary32 number, a subnormal), "min64" (2^-1074, the least
\* positive binary64 number, a subnormal) and "other" (any other number).
\* The conversions of DataView are the tables of IEEE-754 on these numbers.

\* DataView.setFloat32(0, num, false): the IEEE-754 binary32 bytes, big-endian,
\* of the binary32 number nearest to num
setFloat32(num) ==
    CASE num = "0"     -> <<0, 0, 0, 0>>
      [] num = "-1.5"  -> <<191, 192, 0, 0>>
      [] num = "pi"    -> <<64, 73, 15, 219>>
      [] num = "pi32"  -> <<64, 73, 15, 219>>
      [] num = "min32" -> <<0, 0, 0, 1>>
      [] num = "min64" -> <<0, 0, 0, 0>>

\* DataView.setFloat64(0, num, false): the IEEE-754 binary64 bytes, big-endian
setFloat64(num) ==
    CASE num = "0"     -> <<0, 0, 0, 0, 0, 0, 0, 0>>
      [] num = "-1.5"  -> <<191, 248, 0, 0, 0, 0, 0, 0>>
      [] num = "pi"    -> <<64, 9, 33, 251, 84, 68, 45, 24>>
      [] num = "pi32"  -> <<64, 9, 33, 251, 96, 0, 0, 0>>
      [] num = "min32" -> <<54, 160, 0, 0, 0, 0, 0, 0>>
      [] num = "min64" -> <<0, 0, 0, 0, 0, 0, 0, 1>>

\* DataView.getFloat32(0, false) over bytes: RangeError on fewer than 4 bytes
getFloat32(bytes) ==
    IF Len(bytes) < 4 THEN [err |-> "RangeError", ret |-> "other"]
    ELSE [err |-> "none",
          ret |-> CASE SubSeq(bytes, 1, 4) = <<0, 0, 0, 0>>       -> "0"
                    [] SubSeq(bytes, 1, 4) = <<191, 192, 0, 0>>   -> "-1.5"
                    [] SubSeq(bytes, 1, 4) = <<64, 73, 15, 219>>  -> "pi32"
                    [] SubSeq(bytes, 1, 4) = <<0, 0, 0, 1>>       -> "min32"
                    [] OTHER                                      -> "other"]

\* DataView.getFloat64(0, false) over bytes: RangeError on fewer than 8 bytes
getFloat64(bytes) ==
    IF Len(bytes) < 8 THEN [err |-> "RangeError", ret |-> "other"]
    ELSE [err |-> "none",
          ret |-> CASE SubSeq(bytes, 1, 8) = <<0, 0, 0, 0, 0, 0, 0, 0>>          -> "0"
                    [] SubSeq(bytes, 1, 8) = <<191, 248, 0, 0, 0, 0, 0, 0>>      -> "-1.5"
                    [] SubSeq(bytes, 1, 8) = <<64, 9, 33, 251, 84, 68, 45, 24>>  -> "pi"
                    [] SubSeq(bytes, 1, 8) = <<64, 9, 33, 251, 96, 0, 0, 0>>     -> "pi32"
                    [] SubSeq(bytes, 1, 8) = <<54, 160, 0, 0, 0, 0, 0, 0>>       -> "min32"
                    [] SubSeq(bytes, 1, 8) = <<0, 0, 0, 0, 0, 0, 0, 1>>          -> "min64"
                    [] OTHER                                                     -> "other"]

\* arr cut into chunks of 8, element number index in chunk floor(index / 8);
\* the last chunk holds what is left
chunkArray(arr) ==
    [c \in 1..((Len(arr) + 7) \div 8) |->
        SubSeq(arr, 8 * (c - 1) + 1, IF 8 * c <= Len(arr) THEN 8 * c ELSE Len(arr))]

\* getFloat with its chunks read least significant bit first
getFloatLsbFirst(bits) ==
    Bind(chunkArray(bits), LAMBDA chunks :
    Bind([c \in 1..Len(chunks) |->
            getUint([k \in 1..Len(chunks[c]) |-> chunks[c][Len(chunks[c]) + 1 - k]]).lo],
         LAMBDA bytes :
            IF Len(bits) > 32 THEN getFloat64(bytes) ELSE getFloat32(bytes)))

getFloat(bits) ==
    Bind(chunkArray(bits), LAMBDA chunks :
    Bind([c \in 1..Len(chunks) |-> getUint(chunks[c]).lo], LAMBDA bytes :
        IF Len(bits) > 32 THEN getFloat64(bytes) ELSE getFloat32(bytes)))

RECURSIVE flatMapParseUint8(_)
\* [...bytes].flatMap((val) => parseUint8(val)), from index s.i on
flatMapParseUint8(s) ==
    IF s.i > Len(s.bytes) THEN s.acc
    ELSE CHOOSE y \in {flatMapParseUint8(t) :
                        t \in {[bytes |-> s.bytes, i |-> s.i + 1,
                                acc   |-> s.acc \o parseUint8(FromInt(s.bytes[s.i])).bits]}} : TRUE

parseFloatNumber(num, length) ==
    Bind([bytes |-> IF length = 32 THEN setFloat32(num) ELSE setFloat64(num),
          i |-> 1, acc |-> <<>>],
         flatMapParseUint8)

parseFloat32(num) == parseFloatNumber(num, 32)

parseFloat64(num) == parseFloatNumber(num, 64)

(***************************************************************************)
(* ResizableUint8Array: a buffer is a record                               *)
(*   [inner, readPosition, writePosition]                                  *)
(* where inner is the backing Uint8Array (a sequence, index i of the code  *)
(* is inner[i + 1]).  A method that changes the buffer returns a record    *)
(* with the new buffer in field buf, what it returns in ret and what it    *)
(* throws in err.                                                          *)
(***************************************************************************)
Max(a, b) == IF a > b THEN a ELSE b

\* new Uint8Array(n): n zero bytes
Zeros(n) == [i \in 1..n |-> 0]

\* Uint8Array.prototype.set(src, offset)
TypedArraySet(dst, src, offset) ==
    Bind(<<dst, src>>, LAMBDA t :
        [i \in 1..Len(t[1]) |->
            IF i > offset /\ i <= offset + Len(t[2]) THEN t[2][i - offset] ELSE t[1][i]])

\* Uint8Array.prototype.slice(from, to)
Slice(arr, from, to) == SubSeq(arr, from + 1, to)

isByte(num) == IsInteger(num) /\ GreaterEq(num, Zero) /\ ~Greater(num, FromInt(255))

isArrayOfBytes(arr) == \A i \in 1..Len(arr) : isByte(arr[i])

\* the byte a valid number is stored as
ByteOf(num) == num.lo

\* constructor(length: number)
NewBufferOfLength(length) ==
    [inner |-> Zeros(Max(length, 8)), readPosition |-> 0, writePosition |-> 0]

\* constructor(initial: Uint8Array)
NewBufferOfBytes(arg) ==
    [inner |-> arg, readPosition |-> 0, writePosition |-> Len(arg)]

\* the constructor refusing an array that holds an invalid byte the way push
\* and set do, with a RangeError
NewBufferOfNumbersRange(arg) ==
    IF isArrayOfBytes(arg)
    THEN [err |-> "none",
          buf |-> NewBufferOfBytes([i \in 1..Len(arg) |-> ByteOf(arg[i])])]
    ELSE [err |-> "RangeError", buf |-> NewBufferOfLength(0)]

\* constructor(initial: number[])
NewBufferOfNumbers(arg) ==
    IF isArrayOfBytes(arg)
    THEN [err |-> "none",
          buf |-> NewBufferOfBytes([i \in 1..Len(arg) |-> ByteOf(arg[i])])]
    ELSE [err |-> "TypeError", buf |-> NewBufferOfLength(0)]

\* a length or index of the model as a number
LengthOf(n) == FromInt(n)

\* a number that is a length as an integer of the model
IndexOf(x) == x.hi * Half + x.lo

\* x * 1.5 for an integer x >= 0: x plus its half, the carry of the low
\* parts taken to the high part
TimesOneAndHalf(x) ==
    [hi   |-> x.hi + x.hi \div 2 + (x.lo + ((x.hi % 2) * Half + x.lo) \div 2) \div Half,
     lo   |-> (x.lo + ((x.hi % 2) * Half + x.lo) \div 2) % Half,
     frac |-> x.lo % 2]

\* Math.max((len * 1.5) >> 0, 8): the length expand and compact allocate.
\* >> 0 of a number that is not negative drops its fraction and keeps its
\* low 32 bits as a signed integer: one with bit 31 set is negative, and
\* Math.max then answers 8
grownLength(len) ==
    IF TimesOneAndHalf(len).hi % Half >= Half \div 2
    THEN LengthOf(8)
    ELSE IF TimesOneAndHalf(len).hi % Half = 0 /\ TimesOneAndHalf(len).lo < 8
    THEN LengthOf(8)
    ELSE Num(TimesOneAndHalf(len).hi % Half, TimesOneAndHalf(len).lo)

\* expand on the length of the store alone: the new store is allocated, and
\* newInner.set(this.#inner) throws a RangeError, before this.#inner is
\* assigned, when the old store does not fit in it
expandInner(len) ==
    Bind(grownLength(len), LAMBDA n :
        IF Less(n, len)
        THEN [err |-> "RangeError", len |-> len]
        ELSE [err |-> "none", len |-> n])

\* expand of a store short enough for newInner.set to succeed
expand(buf) ==
    [buf EXCEPT !.inner =
        TypedArraySet(Zeros(IndexOf(expandInner(LengthOf(Len(buf.inner))).len)),
                      buf.inner, 0)]

\* one turn of `while (inner.length < needed) expand()` on the length of the
\* store alone; s.err is "looping" while the loop is running, "none" once
\* its test has failed, and the RangeError of an expand that throws leaves it
expandInnerTurn(s) ==
    IF s.err # "looping" THEN s
    ELSE IF Less(s.len, s.needed)
    THEN Bind(expandInner(s.len), LAMBDA r :
            [len |-> r.len, needed |-> s.needed,
             err |-> IF r.err = "none" THEN "looping" ELSE r.err])
    ELSE [s EXCEPT !.err = "none"]

RECURSIVE expandInnerTurns(_, _)
\* up to 2^k turns of the loop
expandInnerTurns(s, k) ==
    IF k = 0 THEN expandInnerTurn(s)
    ELSE Bind(expandInnerTurns(s, k - 1), LAMBDA half : expandInnerTurns(half, k - 1))

\* the loop of set: a store below 2^32 bytes that grows by half each turn
\* is through in fewer than 64 turns, or the result says "looping"
expandInnerWhile(s) ==
    Bind([len |-> s.len, needed |-> s.needed, err |-> "looping"], LAMBDA t :
        expandInnerTurns(t, 6))

RECURSIVE expandWhile(_)
\* while (inner.length < needed) expand()
expandWhile(s) ==
    IF Len(s.buf.inner) < s.needed
    THEN Bind([buf |-> expand(s.buf), needed |-> s.needed], expandWhile)
    ELSE s.buf

isFull(buf) == buf.writePosition = Len(buf.inner)

isEmpty(buf) == buf.writePosition = buf.readPosition

length(buf) == buf.writePosition - buf.readPosition

RECURSIVE setOneByOne(_, _)
\* set as a push of each element in turn: the elements before the first
\* invalid one are written
setOneByOne(buf, toAdd) ==
    IF toAdd = <<>> THEN [err |-> "none", buf |-> buf]
    ELSE IF ~isByte(Head(toAdd)) THEN [err |-> "RangeError", buf |-> buf]
    ELSE setOneByOne(
            [buf EXCEPT
               !.inner = TypedArraySet(
                   IF buf.writePosition < Len(buf.inner) THEN buf.inner
                   ELSE buf.inner \o Zeros(4),
                   <<ByteOf(Head(toAdd))>>, buf.writePosition),
               !.writePosition = buf.writePosition + 1],
            Tail(toAdd))

set(buf, toAdd) ==
    IF ~isArrayOfBytes(toAdd)
    THEN [err |-> "RangeError", buf |-> buf]
    ELSE Bind([buf |-> buf, needed |-> buf.writePosition + Len(toAdd)], LAMBDA s :
         Bind(expandWhile(s), LAMBDA grown :
            [err |-> "none",
             buf |-> [grown EXCEPT
                        !.inner = TypedArraySet(grown.inner,
                                                [i \in 1..Len(toAdd) |-> ByteOf(toAdd[i])],
                                                grown.writePosition),
                        !.writePosition = grown.writePosition + Len(toAdd)]]))

\* push without `if (this.isFull()) this.expand()`
pushWithoutExpand(buf, toAdd) ==
    IF ~isByte(toAdd)
    THEN [err |-> "RangeError", buf |-> buf]
    ELSE [err |-> "none",
          buf |-> [buf EXCEPT
                     !.inner = [i \in 1..Len(buf.inner) |->
                                  IF i = buf.writePosition + 1 THEN ByteOf(toAdd)
                                  ELSE buf.inner[i]],
                     !.writePosition = buf.writePosition + 1]]

push(buf, toAdd) ==
    IF ~isByte(toAdd)
    THEN [err |-> "RangeError", buf |-> buf]
    ELSE Bind(IF isFull(buf) THEN expand(buf) ELSE buf, LAMBDA grown :
            [err |-> "none",
             buf |-> [grown EXCEPT
                        !.inner[grown.writePosition + 1] = ByteOf(toAdd),
                        !.writePosition = grown.writePosition + 1]])

\* get as slice(0, writePosition): the bytes already shifted are not left out
getFromStart(buf) == Slice(buf.inner, 0, buf.writePosition)

get(buf) == Slice(buf.inner, buf.readPosition, buf.writePosition)

toArray(buf) == get(buf)

compact(buf) ==
    [inner |-> TypedArraySet(Zeros(IndexOf(grownLength(LengthOf(length(buf))))), get(buf), 0),
     readPosition |-> 0,
     writePosition |-> buf.writePosition - buf.readPosition]

\* shift that returns the next byte and leaves readPosition where it was
shiftKeeping(buf) ==
    IF buf.readPosition >= buf.writePosition
    THEN [buf |-> buf, ret |-> <<>>]
    ELSE [buf |-> buf, ret |-> <<buf.inner[buf.readPosition + 1]>>]

\* shift without `if (this.#readPosition > 512) this.compact()`
shiftWithoutCompact(buf) ==
    IF buf.readPosition >= buf.writePosition
    THEN [buf |-> buf, ret |-> <<>>]
    ELSE [buf |-> [buf EXCEPT !.readPosition = buf.readPosition + 1],
          ret |-> <<buf.inner[buf.readPosition + 1]>>]

\* ret = <<>> stands for undefined, <<b>> for the byte b
shift(buf) ==
    IF buf.readPosition >= buf.writePosition
    THEN [buf |-> buf, ret |-> <<>>]
    ELSE Bind(IF buf.readPosition > 512 THEN compact(buf) ELSE buf, LAMBDA c :
            [buf |-> [c EXCEPT !.readPosition = c.readPosition + 1],
             ret |-> <<c.inner[c.readPosition + 1]>>])

\* an iteration that leaves readPosition where it was
iterateKeeping(buf) ==
    [buf |-> buf,
     ret |-> Slice(buf.inner, buf.readPosition, Max(buf.readPosition, buf.writePosition))]

\* [...buf]: the iterator run to its end
iterate(buf) ==
    [buf |-> [buf EXCEPT !.readPosition = Max(buf.readPosition, buf.writePosition)],
     ret |-> Slice(buf.inner, buf.readPosition, Max(buf.readPosition, buf.writePosition))]

clear(buf) ==
    [inner |-> Zeros(Len(buf.inner)), readPosition |-> 0, writePosition |-> 0]

(***************************************************************************)
(* Packer: a record [bits, bytes].  A method returns [p, err] (and ret).   *)
(***************************************************************************)
DEFAULT_PACKER_LENGTH == 512

\* constructor(size?): arg is <<>> when no size is given, <<size>> otherwise
NewPacker(arg) ==
    [bits  |-> <<>>,
     bytes |-> NewBufferOfLength(IF arg = <<>> THEN DEFAULT_PACKER_LENGTH ELSE arg[1])]

\* putBit with the check after the push: the value is queued, then refused
putBitQueuedFirst(p, bit) ==
    IF bit # 0 /\ bit # 1
    THEN [p |-> [p EXCEPT !.bits = Append(p.bits, bit)], err |-> "InvalidBitError"]
    ELSE IF Len(p.bits) + 1 = 8
    THEN Bind(getUint(Append(p.bits, bit)), LAMBDA byte :
         Bind(push(p.bytes, byte), LAMBDA r :
            [p |-> [bits |-> <<>>, bytes |-> r.buf], err |-> r.err]))
    ELSE [p |-> [p EXCEPT !.bits = Append(p.bits, bit)], err |-> "none"]

\* putBit without `this.bits.length = 0`: the byte is pushed, the queue kept
putBitKeepingQueue(p, bit) ==
    IF bit # 0 /\ bit # 1
    THEN [p |-> p, err |-> "InvalidBitError"]
    ELSE IF Len(p.bits) + 1 = 8
    THEN Bind(getUint(Append(p.bits, bit)), LAMBDA byte :
         Bind(push(p.bytes, byte), LAMBDA r :
            [p |-> [bits |-> Append(p.bits, bit), bytes |-> r.buf], err |-> r.err]))
    ELSE [p |-> [p EXCEPT !.bits = Append(p.bits, bit)], err |-> "none"]

putBit(p, bit) ==
    IF bit # 0 /\ bit # 1
    THEN [p |-> p, err |-> "InvalidBitError"]
    ELSE IF Len(p.bits) + 1 = 8
    THEN Bind(getUint(Append(p.bits, bit)), LAMBDA byte :
         Bind(push(p.bytes, byte), LAMBDA r :
            IF r.err # "none"
            THEN [p |-> [p EXCEPT !.bits = Append(p.bits, bit)], err |-> r.err]
            ELSE [p |-> [bits |-> <<>>, bytes |-> r.buf], err |-> "none"]))
    ELSE [p |-> [p EXCEPT !.bits = Append(p.bits, bit)], err |-> "none"]

RECURSIVE putBitsFrom(_)
\* the forEach of putBits: s.n calls of putBit on the bits from index s.i on,
\* in order, ended by the first putBit that throws (s.err); the calls are
\* walked by halves
putBitsFrom(s) ==
    CASE s.err # "none" \/ s.n <= 0 -> s
      [] s.err = "none" /\ s.n = 1 ->
            CHOOSE y \in {[p |-> r.p, bits |-> s.bits, i |-> s.i + 1, n |-> 0, err |-> r.err] :
                            r \in {putBit(s.p, s.bits[s.i])}} : TRUE
      [] s.err = "none" /\ s.n > 1 ->
            CHOOSE y \in {putBitsFrom([r EXCEPT !.n = s.n - s.n \div 2]) :
                            r \in {putBitsFrom([s EXCEPT !.n = s.n \div 2])}} : TRUE

\* bits.forEach((bit) => this.putBit(bit))
\* putBits as a transaction: a sequence with an element that is no bit is
\* refused before any of its bits is put
putBitsAtomic(p, bits) ==
    IF \E i \in 1..Len(bits) : bits[i] \notin Bit
    THEN [p |-> p, err |-> "InvalidBitError"]
    ELSE [p |-> putBitsFrom([p |-> p, bits |-> bits, i |-> 1,
                             n |-> Len(bits), err |-> "none"]).p,
          err |-> "none"]

putBits(p, bits) ==
    CHOOSE y \in {[p |-> r.p, err |-> r.err] :
                    r \in {putBitsFrom([p |-> p, bits |-> bits, i |-> 1,
                                        n |-> Len(bits), err |-> "none"])}} : TRUE

\* a put of an integer: the parse, then putBits unless the parse threw
putParsed(p, parsed) ==
    IF parsed.err # "none" THEN [p |-> p, err |-> parsed.err]
    ELSE putBits(p, parsed.bits)

putUint8(p, num) == Bind(parseUint8(num), LAMBDA parsed : putParsed(p, parsed))

putUint16(p, num) == Bind(parseUint16(num), LAMBDA parsed : putParsed(p, parsed))

putUint32(p, num) == Bind(parseUint32(num), LAMBDA parsed : putParsed(p, parsed))

putInt8(p, num) == Bind(parseInt8(num), LAMBDA parsed : putParsed(p, parsed))

putInt16(p, num) == Bind(parseInt16(num), LAMBDA parsed : putParsed(p, parsed))

putInt32(p, num) == Bind(parseInt32(num), LAMBDA parsed : putParsed(p, parsed))

putFloat32(p, num) == putBits(p, parseFloat32(num))

putFloat64(p, num) == putBits(p, parseFloat64(num))

RECURSIVE putBytesFrom(_)
\* the forEach of putBytes from index s.i on
putBytesFrom(s) ==
    IF s.i > Len(s.bytes) THEN [p |-> s.p, err |-> "none"]
    ELSE CHOOSE y \in {IF r.err # "none" THEN r
                       ELSE putBytesFrom([p |-> r.p, bytes |-> s.bytes, i |-> s.i + 1]) :
                        r \in {putUint8(s.p, s.bytes[s.i])}} : TRUE

\* putBytes as a copy of the bytes into the byte buffer, past the bit queue
putBytesDirect(p, bytes) ==
    Bind(set(p.bytes, bytes), LAMBDA r :
        [p |-> [p EXCEPT !.bytes = r.buf], err |-> r.err])

\* bytes.forEach((byte) => this.putUint8(byte))
putBytes(p, bytes) == Bind([p |-> p, bytes |-> bytes, i |-> 1], putBytesFrom)

\* the padding loop pushing 1 in place of 0
padTo8Ones(bits) == bits \o [i \in 1..(8 - Len(bits)) |-> 1]

\* while (bits.length !== 8) bits.push(0), entered with 1..7 bits
padTo8(bits) == bits \o [i \in 1..(8 - Len(bits)) |-> 0]

flushBits(p) ==
    IF Len(p.bits) % 8 # 0
    THEN Bind(getUint(padTo8(p.bits)), LAMBDA byte :
         Bind(push(p.bytes, byte), LAMBDA r :
            [p |-> [p EXCEPT !.bytes = r.buf], err |-> r.err]))
    ELSE [p |-> p, err |-> "none"]

\* getBytes returning the snapshot get() returns, nothing consumed
getBytesSnapshot(p) ==
    Bind(flushBits(p), LAMBDA f :
        IF f.err # "none" THEN [p |-> f.p, err |-> f.err, ret |-> <<>>]
        ELSE [p |-> f.p, err |-> "none", ret |-> get(f.p.bytes)])

getBytes(p) ==
    Bind(flushBits(p), LAMBDA f :
        IF f.err # "none" THEN [p |-> f.p, err |-> f.err, ret |-> <<>>]
        ELSE Bind(iterate(f.p.bytes), LAMBDA it :
                [p |-> [f.p EXCEPT !.bytes = it.buf], err |-> "none", ret |-> it.ret]))

\* getBuffer returning [...this.bytes] for this.bytes.get(): the bytes it
\* returns leave the buffer
getBufferConsuming(p) ==
    Bind(flushBits(p), LAMBDA f :
        IF f.err # "none" THEN [p |-> f.p, err |-> f.err, ret |-> <<>>]
        ELSE Bind(iterate(f.p.bytes), LAMBDA it :
                [p |-> [f.p EXCEPT !.bytes = it.buf], err |-> "none", ret |-> it.ret]))

getBuffer(p) ==
    Bind(flushBits(p), LAMBDA f :
        IF f.err # "none" THEN [p |-> f.p, err |-> f.err, ret |-> <<>>]
        ELSE [p |-> f.p, err |-> "none", ret |-> get(f.p.bytes)])

\* size without the pending bits
sizeOfBytes(p) == length(p.bytes) * 8

size(p) == Len(p.bits) + length(p.bytes) * 8

(***************************************************************************)
(* Unpacker: a record [bits, bytes].  A method returns [u, err, ret].      *)
(***************************************************************************)
\* constructor(bytes: Uint8Array)
NewUnpacker(bytes) == [bits |-> <<>>, bytes |-> NewBufferOfBytes(bytes)]

\* constructor(bytes: number[]): what it throws, and the Unpacker when it
\* returns
NewUnpackerOfNumbers(arg) ==
    Bind(NewBufferOfNumbers(arg), LAMBDA r :
        [err |-> r.err, u |-> [bits |-> <<>>, bytes |-> r.buf]])

\* the bits of a byte for i = 0 up to 7, least significant first
ByteBitsLsbFirst(byte) == [k \in 1..8 |-> (byte \div (2 ^ (k - 1))) % 2]

\* ((byte >> i) & 1) ? 1 : 0 for i = 7 down to 0
ByteBits(byte) == [k \in 1..8 |-> (byte \div (2 ^ (8 - k))) % 2]

\* unpackByte with unshift for push: the bits of the byte go in front of the
\* bits already queued
unpackByteInFront(u) ==
    Bind(shift(u.bytes), LAMBDA s :
        IF s.ret = <<>>
        THEN u
        ELSE [bits |-> ByteBits(s.ret[1]) \o u.bits, bytes |-> s.buf])

unpackByte(u) ==
    Bind(shift(u.bytes), LAMBDA s :
        IF s.ret = <<>>
        THEN u
        ELSE [bits |-> u.bits \o ByteBits(s.ret[1]), bytes |-> s.buf])

\* readBit without the test of what shift() gave: at the end of the data it
\* returns (a 0 here) where readBit throws
readBitUnchecked(u) ==
    Bind(IF Len(u.bits) = 0 THEN unpackByte(u) ELSE u, LAMBDA filled :
        IF Len(filled.bits) = 0
        THEN [u |-> filled, err |-> "none", ret |-> 0]
        ELSE [u   |-> [filled EXCEPT !.bits = Tail(filled.bits)],
              err |-> "none",
              ret |-> Head(filled.bits)])

\* readBit that unpacks the next byte when one bit or none is queued
readBitEager(u) ==
    Bind(IF Len(u.bits) <= 1 THEN unpackByte(u) ELSE u, LAMBDA filled :
        IF Len(filled.bits) = 0
        THEN [u |-> filled, err |-> "RangeError", ret |-> 0]
        ELSE [u   |-> [filled EXCEPT !.bits = Tail(filled.bits)],
              err |-> "none",
              ret |-> Head(filled.bits)])

readBit(u) ==
    Bind(IF Len(u.bits) = 0 THEN unpackByte(u) ELSE u, LAMBDA filled :
        IF Len(filled.bits) = 0
        THEN [u |-> filled, err |-> "RangeError", ret |-> 0]
        ELSE [u   |-> [filled EXCEPT !.bits = Tail(filled.bits)],
              err |-> "none",
              ret |-> Head(filled.bits)])

RECURSIVE readBitsAcc(_)
\* the Array.from of readBits: s.n calls of readBit in order, s.ret the bits
\* returned so far, ended by the first call that throws (s.err); the calls
\* are walked by halves
readBitsAcc(s) ==
    CASE s.err # "none" \/ s.n <= 0 -> s
      [] s.err = "none" /\ s.n = 1 ->
            CHOOSE y \in {[u |-> r.u, n |-> 0, err |-> r.err,
                           ret |-> IF r.err = "none" THEN Append(s.ret, r.ret) ELSE <<>>] :
                            r \in {readBit(s.u)}} : TRUE
      [] s.err = "none" /\ s.n > 1 ->
            CHOOSE y \in {readBitsAcc([r EXCEPT !.n = s.n - s.n \div 2]) :
                            r \in {readBitsAcc([s EXCEPT !.n = s.n \div 2])}} : TRUE

\* the n calls of readBit of readBits(n): what they leave, throw and return
readBitsOf(u, n) ==
    CHOOSE y \in {[u |-> r.u, err |-> r.err, ret |-> r.ret] :
                    r \in {readBitsAcc([u |-> u, n |-> n, err |-> "none", ret |-> <<>>])}} : TRUE

\* readBits that drops the bits of the last byte it did not return, so that
\* the next read starts on a byte boundary
readBitsAligned(u, n) ==
    Bind(readBitsOf(u, n), LAMBDA r : [r EXCEPT !.u.bits = <<>>])

\* readBits that puts the Unpacker back as it was when a readBit throws
readBitsRestoring(u, n) ==
    Bind(readBitsOf(u, n), LAMBDA r : IF r.err = "none" THEN r ELSE [r EXCEPT !.u = u])

\* Array.from({ length: n }, () => this.readBit())
readBits(u, n) == readBitsOf(u, n)

\* getUint(this.readBits(n))
readUint(u, n) ==
    Bind(readBits(u, n), LAMBDA r :
        IF r.err # "none" THEN [u |-> r.u, err |-> r.err, ret |-> Zero]
        ELSE [u |-> r.u, err |-> "none", ret |-> getUint(r.ret)])

\* getInt(this.readBits(n))
readInt(u, n) ==
    Bind(readBits(u, n), LAMBDA r :
        IF r.err # "none" THEN [u |-> r.u, err |-> r.err, ret |-> Zero]
        ELSE Bind(getInt(r.ret), LAMBDA v : [u |-> r.u, err |-> v.err, ret |-> v.ret]))

readUint8(u) == readUint(u, 8)

readUint16(u) == readUint(u, 16)

readUint32(u) == readUint(u, 32)

readInt8(u) == readInt(u, 8)

readInt16(u) == readInt(u, 16)

readInt32(u) == readInt(u, 32)

\* getFloat(this.readBits(n))
readFloat(u, n) ==
    Bind(readBits(u, n), LAMBDA r :
        IF r.err # "none" THEN [u |-> r.u, err |-> r.err, ret |-> "other"]
        ELSE Bind(getFloat(r.ret), LAMBDA v : [u |-> r.u, err |-> v.err, ret |-> v.ret]))

readFloat32(u) == readFloat(u, 32)

readFloat64(u) == readFloat(u, 64)

RECURSIVE readBytesAcc(_)
\* the Array.from of readBytes: s.n calls of readUint8 in order, s.ret the
\* bytes returned so far, ended by the first call that throws (s.err); the
\* calls are walked by halves
readBytesAcc(s) ==
    CASE s.err # "none" \/ s.n <= 0 -> s
      [] s.err = "none" /\ s.n = 1 ->
            CHOOSE y \in {[u |-> r.u, n |-> 0, err |-> r.err,
                           ret |-> IF r.err = "none" THEN Append(s.ret, r.ret) ELSE <<>>] :
                            r \in {readUint8(s.u)}} : TRUE
      [] s.err = "none" /\ s.n > 1 ->
            CHOOSE y \in {readBytesAcc([r EXCEPT !.n = s.n - s.n \div 2]) :
                            r \in {readBytesAcc([s EXCEPT !.n = s.n \div 2])}} : TRUE

\* Array.from({ length: n }, () => this.readUint8())
readBytes(u, n) ==
    CHOOSE y \in {[u |-> r.u, err |-> r.err, ret |-> r.ret] :
                    r \in {readBytesAcc([u |-> u, n |-> n, err |-> "none", ret |-> <<>>])}} : TRUE

RECURSIVE peekFillEmptyFirst(_)
\* the refill loop with its two tests in the other order: an empty buffer
\* throws whatever the bit queue holds
peekFillEmptyFirst(s) ==
    IF length(s.u.bytes) = 0
    THEN [u |-> s.u, err |-> "Error"]
    ELSE IF Len(s.u.bits) < s.n
         THEN Bind([u |-> unpackByte(s.u), n |-> s.n], peekFillEmptyFirst)
         ELSE [u |-> s.u, err |-> "none"]

RECURSIVE peekFill(_)
\* the refill loop of peek
peekFill(s) ==
    IF Len(s.u.bits) < s.n
    THEN IF length(s.u.bytes) = 0
         THEN [u |-> s.u, err |-> "Error"]
         ELSE Bind([u |-> unpackByte(s.u), n |-> s.n], peekFill)
    ELSE [u |-> s.u, err |-> "none"]

\* peek with splice(0, n) for slice(0, n): the bits it returns leave the queue
peekSplicing(u, n) ==
    Bind([u |-> u, n |-> n], LAMBDA s :
    Bind(peekFill(s), LAMBDA f :
        IF f.err # "none" THEN [u |-> f.u, err |-> f.err, ret |-> <<>>]
        ELSE [u   |-> [f.u EXCEPT !.bits = SubSeq(f.u.bits, n + 1, Len(f.u.bits))],
              err |-> "none",
              ret |-> SubSeq(f.u.bits, 1, n)]))

\* peek that empties the bit queue before it throws
peekDiscarding(u, n) ==
    Bind([u |-> u, n |-> n], LAMBDA s :
    Bind(peekFill(s), LAMBDA f :
        IF f.err # "none" THEN [u |-> [f.u EXCEPT !.bits = <<>>], err |-> f.err, ret |-> <<>>]
        ELSE [u |-> f.u, err |-> "none", ret |-> SubSeq(f.u.bits, 1, n)]))

peek(u, n) ==
    Bind([u |-> u, n |-> n], LAMBDA s :
    Bind(peekFill(s), LAMBDA f :
        IF f.err # "none" THEN [u |-> f.u, err |-> f.err, ret |-> <<>>]
        ELSE [u |-> f.u, err |-> "none", ret |-> SubSeq(f.u.bits, 1, n)]))

\* remaining() without the bit queue
remainingOfBytes(u) == length(u.bytes) * 8

remaining(u) == Len(u.bits) + length(u.bytes) * 8

(***************************************************************************)
(* The state machine: one Packer, on which a caller makes calls, and one   *)
(* Unpacker, built from a buffer the Packer returned.                      *)
(***************************************************************************)
VARIABLES
    packer,       \* the Packer
    unpacker,     \* the Unpacker (meaningful once phase = "unpack")
    phase,        \* "pack" until the Unpacker is constructed, then "unpack"
    lastOp,       \* the method called last ("new" after construction)
    lastArg,      \* what it was called with (<<>> when it takes nothing)
    before,       \* the Packer as it was before its last call
    prevOp,       \* the method called before it
    err,          \* what the last call threw, "none" if it returned
    ret,          \* what the last call returned (<<>> for a void method)
    prevRet,      \* what the call before it returned
    nOps,         \* calls made on the Packer
    nGetBytes,    \* getBytes calls made
    nGetBuffer,   \* getBuffer calls made
    stream,       \* history: the bits the puts so far stand for on the wire, in order
    markBits,     \* history: Len(stream) at the last getBytes call
    markGets,     \* history: nGetBuffer at the last getBytes call
    pads,         \* history: extractions made while the bit queue held 1..7 bits
    fields,       \* history: the successful puts of a round trip, [op, arg]
    reads,        \* history: what the reads of a round trip returned, [op, err, ret]
    source,       \* history: the bytes the Unpacker was constructed from
    consumed,     \* history: the bits of source that the reads have passed
    buffer,       \* a ResizableUint8Array used on its own
    prior,        \* that buffer as it was before its last call
    fifo,         \* history: the bytes appended to it and not yet shifted, in order
    calls,        \* history: the methods called on it, in order
    capacity      \* the length of the store of a buffer of which only that is kept

vars == <<packer, unpacker, phase, lastOp, lastArg, before, prevOp, err, ret, prevRet, nOps,
          nGetBytes, nGetBuffer, stream, markBits, markGets, pads, fields, reads,
          source, consumed, buffer, prior, fifo, calls, capacity>>

unpackerVars == <<unpacker, phase, reads, source, consumed>>

bufferVars == <<buffer, prior, fifo, calls, capacity>>

\* bounds of the model
MaxOps == 3

MaxCalls == 5

MaxFields == 3

\* new Packer() and new Packer(1)
PackerArgs == {<<>>, <<1>>}

\* inputs of the calls of Spec: valid ones and ones the method rejects
BitInputs == {1, 2}

BitsInputs == {<<0, 0, 1, 0>>, <<1, 2, 1>>}

BytesInputs == {<<FromInt(1), FromInt(255)>>}

Uint8Inputs == {FromInt(127), FromInt(256)}

Uint16Inputs == {FromInt(258)}

Uint32Inputs == {Num(32768, 1)}

Int8Inputs == {FromInt(-128)}

Int16Inputs == {FromInt(1000)}

Int32Inputs == {Num(-32768, 0)}

Float32Inputs == {"pi"}

Float64Inputs == {"-1.5"}

Init ==
    /\ packer \in {NewPacker(arg) : arg \in PackerArgs}
    /\ unpacker = NewUnpacker(<<>>)
    /\ phase = "pack"
    /\ lastOp = "new"
    /\ lastArg = <<>>
    /\ before = packer
    /\ prevOp = "new"
    /\ err = "none"
    /\ ret = <<>>
    /\ prevRet = <<>>
    /\ nOps = 0
    /\ nGetBytes = 0
    /\ nGetBuffer = 0
    /\ stream = <<>>
    /\ markBits = 0
    /\ markGets = 0
    /\ pads = 0
    /\ fields = <<>>
    /\ reads = <<>>
    /\ source = <<>>
    /\ consumed = 0
    /\ buffer = NewBufferOfLength(0)
    /\ prior = buffer
    /\ fifo = <<>>
    /\ calls = <<>>
    /\ capacity = LengthOf(8)

RECURSIVE GoodPrefix(_)
\* the bits of a sequence that come before its first element that is no bit
GoodPrefix(bits) ==
    IF bits = <<>> \/ Head(bits) \notin Bit THEN <<>>
    ELSE <<Head(bits)>> \o GoodPrefix(Tail(bits))

\* the w binary digits of n (0 <= n < 2^w), most significant first
Digits(n, w) == [i \in 1..w |-> (n \div (2 ^ (w - i))) % 2]

\* the wire format of an integer in a field of w bits: plain binary, two's
\* complement when negative, most significant bit first
WireBits(num, w) ==
    Bind(IF num.hi < 0 THEN Add(num, Pow2(w)) ELSE num, LAMBDA u :
        IF w <= 16 THEN Digits(u.lo, w) ELSE Digits(u.hi, w - 16) \o Digits(u.lo, 16))

RECURSIVE BytesBits(_)
\* the bits of a sequence of bytes
BytesBits(bytes) ==
    IF bytes = <<>> THEN <<>> ELSE Digits(Head(bytes), 8) \o BytesBits(Tail(bytes))

RECURSIVE GoodBytes(_)
\* the bits of the bytes of a sequence that come before its first invalid element
GoodBytes(bytes) ==
    IF bytes = <<>> \/ ~isByte(Head(bytes)) THEN <<>>
    ELSE Digits(Head(bytes).lo, 8) \o GoodBytes(Tail(bytes))

\* the bits a put of an integer stands for: none when it throws
Wire(r, num, w) == IF r.err = "none" THEN WireBits(num, w) ELSE <<>>

\* a put call on the Packer: r is what the method did, added the bits it handed
\* to the bit queue; log says whether a successful call is recorded in fields
Put(op, r, added, log, arg) ==
    /\ phase = "pack"
    /\ packer' = r.p
    /\ err' = r.err
    /\ ret' = <<>>
    /\ prevRet' = ret
    /\ lastOp' = op
    /\ lastArg' = arg
    /\ before' = packer
    /\ prevOp' = lastOp
    /\ nOps' = nOps + 1
    /\ stream' = stream \o added
    /\ fields' = IF log /\ r.err = "none"
                 THEN Append(fields, [op |-> op, arg |-> arg])
                 ELSE fields
    /\ UNCHANGED <<nGetBytes, nGetBuffer, markBits, markGets, pads, unpackerVars,
                   bufferVars>>

PutBitCall(bit, log) ==
    \E r \in {putBit(packer, bit)} :
        Put("putBit", r, GoodPrefix(<<bit>>), log, bit)

PutBitsCall(bits, log) ==
    \E r \in {putBits(packer, bits)} :
        Put("putBits", r, GoodPrefix(bits), log, bits)

PutBytesCall(bytes, log) ==
    \E r \in {putBytes(packer, bytes)} :
        Put("putBytes", r, GoodBytes(bytes), log, bytes)

PutUint8Call(num, log) ==
    \E r \in {putUint8(packer, num)} :
        Put("putUint8", r, Wire(r, num, 8), log, num)

PutUint16Call(num, log) ==
    \E r \in {putUint16(packer, num)} :
        Put("putUint16", r, Wire(r, num, 16), log, num)

PutUint32Call(num, log) ==
    \E r \in {putUint32(packer, num)} :
        Put("putUint32", r, Wire(r, num, 32), log, num)

PutInt8Call(num, log) ==
    \E r \in {putInt8(packer, num)} :
        Put("putInt8", r, Wire(r, num, 8), log, num)

PutInt16Call(num, log) ==
    \E r \in {putInt16(packer, num)} :
        Put("putInt16", r, Wire(r, num, 16), log, num)

PutInt32Call(num, log) ==
    \E r \in {putInt32(packer, num)} :
        Put("putInt32", r, Wire(r, num, 32), log, num)

PutFloat32Call(num, log) ==
    \E r \in {putFloat32(packer, num)} :
        Put("putFloat32", r, BytesBits(setFloat32(num)), log, num)

PutFloat64Call(num, log) ==
    \E r \in {putFloat64(packer, num)} :
        Put("putFloat64", r, BytesBits(setFloat64(num)), log, num)

GetBytesCall ==
    \E r \in {getBytes(packer)} :
        /\ phase = "pack"
        /\ packer' = r.p
        /\ err' = r.err
        /\ ret' = r.ret
        /\ prevRet' = ret
        /\ lastOp' = "getBytes"
        /\ lastArg' = <<>>
        /\ before' = packer
        /\ prevOp' = lastOp
        /\ nOps' = nOps + 1
        /\ nGetBytes' = nGetBytes + 1
        /\ markBits' = Len(stream)
        /\ markGets' = nGetBuffer
        /\ pads' = pads + (IF Len(packer.bits) % 8 # 0 THEN 1 ELSE 0)
        /\ UNCHANGED <<nGetBuffer, stream, fields, unpackerVars, bufferVars>>

GetBufferCall ==
    \E r \in {getBuffer(packer)} :
        /\ phase = "pack"
        /\ packer' = r.p
        /\ err' = r.err
        /\ ret' = r.ret
        /\ prevRet' = ret
        /\ lastOp' = "getBuffer"
        /\ lastArg' = <<>>
        /\ before' = packer
        /\ prevOp' = lastOp
        /\ nOps' = nOps + 1
        /\ nGetBuffer' = nGetBuffer + 1
        /\ pads' = pads + (IF Len(packer.bits) % 8 # 0 THEN 1 ELSE 0)
        /\ UNCHANGED <<nGetBytes, stream, markBits, markGets, fields, unpackerVars,
                       bufferVars>>

(***************************************************************************)
(* Spec: any calls on one Packer, puts and extractions interleaved.        *)
(***************************************************************************)
PutBit == nOps < MaxOps /\ \E bit \in BitInputs : PutBitCall(bit, FALSE)

PutBits == nOps < MaxOps /\ \E bits \in BitsInputs : PutBitsCall(bits, FALSE)

PutBytes == nOps < MaxOps /\ \E bytes \in BytesInputs : PutBytesCall(bytes, FALSE)

PutUint8 == nOps < MaxOps /\ \E num \in Uint8Inputs : PutUint8Call(num, FALSE)

PutUint16 == nOps < MaxOps /\ \E num \in Uint16Inputs : PutUint16Call(num, FALSE)

PutUint32 == nOps < MaxOps /\ \E num \in Uint32Inputs : PutUint32Call(num, FALSE)

PutInt8 == nOps < MaxOps /\ \E num \in Int8Inputs : PutInt8Call(num, FALSE)

PutInt16 == nOps < MaxOps /\ \E num \in Int16Inputs : PutInt16Call(num, FALSE)

PutInt32 == nOps < MaxOps /\ \E num \in Int32Inputs : PutInt32Call(num, FALSE)

PutFloat32 == nOps < MaxOps /\ \E num \in Float32Inputs : PutFloat32Call(num, FALSE)

PutFloat64 == nOps < MaxOps /\ \E num \in Float64Inputs : PutFloat64Call(num, FALSE)

GetBytes == nOps < MaxOps /\ GetBytesCall

GetBuffer == nOps < MaxOps /\ GetBufferCall

Next ==
    \/ PutBit
    \/ PutBits
    \/ PutBytes
    \/ PutUint8
    \/ PutUint16
    \/ PutUint32
    \/ PutInt8
    \/ PutInt16
    \/ PutInt32
    \/ PutFloat32
    \/ PutFloat64
    \/ GetBytes
    \/ GetBuffer

Spec == Init /\ [][Next]_vars

(***************************************************************************)
(* SpecExtract: the extractions.  Longer runs of getBytes and getBuffer     *)
(* calls on one Packer, with puts of a bit, of four bits and of a byte      *)
(* between them.                                                            *)
(***************************************************************************)
ExtractPutBit == nOps < MaxCalls /\ PutBitCall(1, FALSE)

ExtractPutBits == nOps < MaxCalls /\ PutBitsCall(<<0, 0, 1, 0>>, FALSE)

ExtractPutUint8 == nOps < MaxCalls /\ PutUint8Call(FromInt(127), FALSE)

ExtractGetBytes == nOps < MaxCalls /\ GetBytesCall

ExtractGetBuffer == nOps < MaxCalls /\ GetBufferCall

NextExtract ==
    \/ ExtractPutBit
    \/ ExtractPutBits
    \/ ExtractPutUint8
    \/ ExtractGetBytes
    \/ ExtractGetBuffer

SpecExtract == Init /\ [][NextExtract]_vars

(***************************************************************************)
(* The way from a Packer to an Unpacker, and the reads.                    *)
(***************************************************************************)
\* new Unpacker(buffer), buffer the Uint8Array getBuffer just returned
NewUnpackerOf(bytes) ==
    /\ phase = "pack"
    /\ unpacker' = NewUnpacker(bytes)
    /\ phase' = "unpack"
    /\ lastOp' = "newUnpacker"
    /\ lastArg' = bytes
    /\ source' = bytes
    /\ consumed' = 0
    /\ prevOp' = lastOp
    /\ ret' = <<>>
    /\ prevRet' = ret
    /\ UNCHANGED <<packer, before, err, nOps, nGetBytes, nGetBuffer, stream,
                   markBits, markGets, pads, fields, reads, bufferVars>>

\* new Unpacker(buffer), buffer what getBuffer just returned
NewUnpackerCall == lastOp = "getBuffer" /\ err = "none" /\ NewUnpackerOf(ret)

\* a read call on the Unpacker: r is what the method did
Read(op, r) ==
    /\ phase = "unpack"
    /\ unpacker' = r.u
    /\ err' = r.err
    /\ ret' = <<r.ret>>
    /\ prevRet' = ret
    /\ lastOp' = op
    /\ prevOp' = lastOp
    /\ reads' = Append(reads, [op |-> op, err |-> r.err, ret |-> r.ret])
    /\ UNCHANGED <<packer, before, phase, nOps, nGetBytes, nGetBuffer, stream,
                   markBits, markGets, pads, fields, source, bufferVars>>

\* a read of n bits passes n bits of the source, or what is left of it when
\* that is less: the read that throws has taken every bit there was
Took(n) == consumed' = IF consumed + n <= 8 * Len(source) THEN consumed + n
                       ELSE 8 * Len(source)

ReadBitCall == \E r \in {readBit(unpacker)} : Read("readBit", r) /\ lastArg' = <<>> /\ Took(1)

ReadBitsCall(n) == \E r \in {readBits(unpacker, n)} : Read("readBits", r) /\ lastArg' = n /\ Took(n)

ReadBytesCall(n) == \E r \in {readBytes(unpacker, n)} : Read("readBytes", r) /\ lastArg' = n /\ Took(8 * n)

\* peek takes nothing from the source
PeekCall(n) == \E r \in {peek(unpacker, n)} : Read("peek", r) /\ lastArg' = n /\ Took(0)

ReadUint8Call == \E r \in {readUint8(unpacker)} : Read("readUint8", r) /\ lastArg' = <<>> /\ Took(8)

ReadUint16Call == \E r \in {readUint16(unpacker)} : Read("readUint16", r) /\ lastArg' = <<>> /\ Took(16)

ReadUint32Call == \E r \in {readUint32(unpacker)} : Read("readUint32", r) /\ lastArg' = <<>> /\ Took(32)

ReadInt8Call == \E r \in {readInt8(unpacker)} : Read("readInt8", r) /\ lastArg' = <<>> /\ Took(8)

ReadInt16Call == \E r \in {readInt16(unpacker)} : Read("readInt16", r) /\ lastArg' = <<>> /\ Took(16)

ReadInt32Call == \E r \in {readInt32(unpacker)} : Read("readInt32", r) /\ lastArg' = <<>> /\ Took(32)

ReadFloat32Call == \E r \in {readFloat32(unpacker)} : Read("readFloat32", r) /\ lastArg' = <<>> /\ Took(32)

ReadFloat64Call == \E r \in {readFloat64(unpacker)} : Read("readFloat64", r) /\ lastArg' = <<>> /\ Took(64)

\* the field the next read of a round trip is to return
NextField == fields[Len(reads) + 1]

\* the next field of the round trip was written by the put op
Pending(op) ==
    /\ phase = "unpack"
    /\ Len(reads) < Len(fields)
    /\ NextField.op = op

(***************************************************************************)
(* The steps of a round trip after its puts: one getBuffer, an Unpacker on  *)
(* the result, and for each field put the read that matches it, in order.  *)
(***************************************************************************)
FinalGetBuffer == nGetBuffer = 0 /\ fields # <<>> /\ GetBufferCall

BuildUnpacker == NewUnpackerCall

MatchReadBit == Pending("putBit") /\ ReadBitCall

MatchReadBits == Pending("putBits") /\ ReadBitsCall(Len(NextField.arg))

MatchReadBytes == Pending("putBytes") /\ ReadBytesCall(Len(NextField.arg))

MatchReadFloat32 == Pending("putFloat32") /\ ReadFloat32Call

MatchReadFloat64 == Pending("putFloat64") /\ ReadFloat64Call

MatchReadUint8 == Pending("putUint8") /\ ReadUint8Call

MatchReadUint16 == Pending("putUint16") /\ ReadUint16Call

MatchReadUint32 == Pending("putUint32") /\ ReadUint32Call

MatchReadInt8 == Pending("putInt8") /\ ReadInt8Call

MatchReadInt16 == Pending("putInt16") /\ ReadInt16Call

MatchReadInt32 == Pending("putInt32") /\ ReadInt32Call

(***************************************************************************)
(* SpecTrip: a round trip of up to MaxFields successful puts on a fresh    *)
(* Packer.                                                                 *)
(***************************************************************************)
TripBit == {1}

TripBits == {<<0, 0, 1, 0, 1, 1, 0, 1, 1>>}

TripBytes == {<<FromInt(1), FromInt(255)>>}

TripUint8 == {FromInt(200)}

TripUint16 == {FromInt(258)}

TripUint32 == {Num(32768, 1)}

TripInt8 == {FromInt(-128)}

TripInt16 == {FromInt(-2)}

TripInt32 == {Num(-32768, 0)}

Packing == phase = "pack" /\ nGetBuffer = 0 /\ Len(fields) < MaxFields

TripPutBit == Packing /\ \E bit \in TripBit : PutBitCall(bit, TRUE)

TripPutBits == Packing /\ \E bits \in TripBits : PutBitsCall(bits, TRUE)

TripPutBytes == Packing /\ \E bytes \in TripBytes : PutBytesCall(bytes, TRUE)

TripPutUint8 == Packing /\ \E num \in TripUint8 : PutUint8Call(num, TRUE)

TripPutUint16 == Packing /\ \E num \in TripUint16 : PutUint16Call(num, TRUE)

TripPutUint32 == Packing /\ \E num \in TripUint32 : PutUint32Call(num, TRUE)

TripPutInt8 == Packing /\ \E num \in TripInt8 : PutInt8Call(num, TRUE)

TripPutInt16 == Packing /\ \E num \in TripInt16 : PutInt16Call(num, TRUE)

TripPutInt32 == Packing /\ \E num \in TripInt32 : PutInt32Call(num, TRUE)

NextTrip ==
    \/ TripPutBit
    \/ TripPutBits
    \/ TripPutBytes
    \/ TripPutUint8
    \/ TripPutUint16
    \/ TripPutUint32
    \/ TripPutInt8
    \/ TripPutInt16
    \/ TripPutInt32
    \/ FinalGetBuffer
    \/ BuildUnpacker
    \/ MatchReadBit
    \/ MatchReadBits
    \/ MatchReadBytes
    \/ MatchReadUint8
    \/ MatchReadUint16
    \/ MatchReadUint32
    \/ MatchReadInt8
    \/ MatchReadInt16
    \/ MatchReadInt32

SpecTrip == Init /\ [][NextTrip]_vars

(***************************************************************************)
(* SpecCodec: one integer through the codec.  One put on a fresh Packer,   *)
(* getBuffer, an Unpacker on the result, and one read.                     *)
(***************************************************************************)
\* every value of the 8-bit widths; of the wider ones the ends of the range,
\* the values around the sign bit and around each byte boundary
CodecUint8 == {FromInt(n) : n \in 0..255}

CodecUint16 == {FromInt(n) : n \in {0, 1, 255, 256, 257, 32767, 32768, 43690, 65534, 65535}}

CodecUint32 ==
    {Num(h, l) : h \in {0, 1, 255, 256, 32767, 32768, 65535}, l \in {0, 1, 32768, 65535}}

CodecInt8 == {FromInt(n) : n \in -128..127}

CodecInt16 == {FromInt(n) : n \in {-32768, -32767, -257, -256, -129, -128, -1, 0, 1, 127, 128, 255, 256, 32766, 32767}}

CodecInt32 ==
    {Num(h, l) : h \in {-32768, -32767, -256, -1, 0, 1, 255, 32767}, l \in {0, 1, 32768, 65535}}

First == phase = "pack" /\ nOps = 0

CodecPutUint8 == First /\ \E num \in CodecUint8 : PutUint8Call(num, TRUE)

CodecPutUint16 == First /\ \E num \in CodecUint16 : PutUint16Call(num, TRUE)

CodecPutUint32 == First /\ \E num \in CodecUint32 : PutUint32Call(num, TRUE)

CodecPutInt8 == First /\ \E num \in CodecInt8 : PutInt8Call(num, TRUE)

CodecPutInt16 == First /\ \E num \in CodecInt16 : PutInt16Call(num, TRUE)

CodecPutInt32 == First /\ \E num \in CodecInt32 : PutInt32Call(num, TRUE)

\* readBits(8) in place of readUint8
CodecReadBits == Pending("putUint8") /\ ReadBitsCall(8)

NextCodec ==
    \/ CodecPutUint8
    \/ CodecPutUint16
    \/ CodecPutUint32
    \/ CodecPutInt8
    \/ CodecPutInt16
    \/ CodecPutInt32
    \/ FinalGetBuffer
    \/ BuildUnpacker
    \/ MatchReadUint8
    \/ MatchReadUint16
    \/ MatchReadUint32
    \/ MatchReadInt8
    \/ MatchReadInt16
    \/ MatchReadInt32
    \/ CodecReadBits

SpecCodec == Init /\ [][NextCodec]_vars

(***************************************************************************)
(* SpecPut: the input checks of the puts.  Up to MaxPut puts on one Packer, *)
(* each with a value at an edge of what the method accepts, so that a call *)
(* that throws comes on an empty Packer, in the middle of a byte and after *)
(* bytes were flushed, and is followed by a call that does not throw.  The *)
(* Packer is the one constructed with a size, new Packer(1), whose buffer  *)
(* of 8 bytes grows during the run.                                        *)
(***************************************************************************)
MaxPut == 3

Putting == nOps < MaxPut /\ Len(packer.bytes.inner) < DEFAULT_PACKER_LENGTH

\* 0 and 1, and two values that are no bit
EdgeBits == {0, 1, 2, -1}

\* -1, 0, 2^W - 1, 2^W, and a number that is no integer
EdgeUint8 == {FromInt(-1), Zero, FromInt(255), FromInt(256), PlusHalf(255)}

EdgeUint16 == {FromInt(-1), Zero, Num(0, 65535), Num(1, 0)}

EdgeUint32 == {FromInt(-1), Zero, Num(65535, 65535), Num(65536, 0)}

\* -2^(W-1) - 1, -2^(W-1), 2^(W-1) - 1, 2^(W-1)
EdgeInt8 == {FromInt(-129), FromInt(-128), FromInt(127), FromInt(128)}

EdgeInt16 == {FromInt(-32769), FromInt(-32768), FromInt(32767), FromInt(32768)}

EdgeInt32 == {Num(-32769, 65535), Num(-32768, 0), Num(32767, 65535), Num(32768, 0)}

EdgePutBit == Putting /\ \E bit \in EdgeBits : PutBitCall(bit, FALSE)

EdgePutUint8 == Putting /\ \E num \in EdgeUint8 : PutUint8Call(num, FALSE)

EdgePutUint16 == Putting /\ \E num \in EdgeUint16 : PutUint16Call(num, FALSE)

EdgePutUint32 == Putting /\ \E num \in EdgeUint32 : PutUint32Call(num, FALSE)

EdgePutInt8 == Putting /\ \E num \in EdgeInt8 : PutInt8Call(num, FALSE)

EdgePutInt16 == Putting /\ \E num \in EdgeInt16 : PutInt16Call(num, FALSE)

EdgePutInt32 == Putting /\ \E num \in EdgeInt32 : PutInt32Call(num, FALSE)

NextPut ==
    \/ EdgePutBit
    \/ EdgePutUint8
    \/ EdgePutUint16
    \/ EdgePutUint32
    \/ EdgePutInt8
    \/ EdgePutInt16
    \/ EdgePutInt32

SpecPut == Init /\ [][NextPut]_vars

(***************************************************************************)
(* SpecUnpack: the reads.  An Unpacker constructed from given bytes, and   *)
(* up to MaxReads calls on it, reads and peeks of any size in any order,   *)
(* past the end of the data too.                                           *)
(***************************************************************************)
MaxReads == 3

\* more bytes than the 512 after which shift() compacts the buffer
LongLength == 520

LongSource == [i \in 1..LongLength |-> (i * 7) % 256]

\* no byte, one byte (the byte of the peek test), two bytes, five bytes, and
\* the long one
SourceBytes == {<<>>, <<160>>, <<1, 2>>, <<255, 0, 170, 85, 129>>, LongSource}

\* the bytes shift() reads up to and with its first compaction
SkipLength == 514

\* sizes of readBits and of peek: nothing, part of a byte, more than a byte
ReadSizes == {0, 3, 4, 9}

PeekSizes == {0, 4, 9}

Unpack == lastOp = "new" /\ \E bytes \in SourceBytes : NewUnpackerOf(bytes)

\* the reads of the long source start with the one that reaches compaction
Reading ==
    /\ phase = "unpack"
    /\ Len(reads) < MaxReads
    /\ Len(source) > 512 => reads # <<>>

UnpackSkip ==
    /\ phase = "unpack"
    /\ reads = <<>>
    /\ Len(source) > 512
    /\ ReadBytesCall(SkipLength)

UnpackReadBit == Reading /\ ReadBitCall

UnpackReadBits == Reading /\ \E n \in ReadSizes : ReadBitsCall(n)

UnpackPeek == Reading /\ \E n \in PeekSizes : PeekCall(n)

UnpackReadBytes == Reading /\ ReadBytesCall(2)

UnpackReadUint8 == Reading /\ ReadUint8Call

UnpackReadUint16 == Reading /\ ReadUint16Call

UnpackReadUint32 == Reading /\ ReadUint32Call

UnpackReadInt8 == Reading /\ ReadInt8Call

UnpackReadInt16 == Reading /\ ReadInt16Call

UnpackReadInt32 == Reading /\ ReadInt32Call

NextUnpack ==
    \/ Unpack
    \/ UnpackSkip
    \/ UnpackReadBit
    \/ UnpackReadBits
    \/ UnpackPeek
    \/ UnpackReadBytes
    \/ UnpackReadUint8
    \/ UnpackReadUint16
    \/ UnpackReadUint32
    \/ UnpackReadInt8
    \/ UnpackReadInt16
    \/ UnpackReadInt32

SpecUnpack == Init /\ [][NextUnpack]_vars

(***************************************************************************)
(* SpecBytes: byte arrays.  putBytes calls with bits put between them, so  *)
(* that an array is written on a fresh Packer, on a byte boundary and in   *)
(* the middle of a byte; then getBuffer, an Unpacker, and the reads.       *)
(***************************************************************************)
\* no byte, one byte, two bytes, and the array of the test
ByteArrays ==
    {<<>>,
     <<Zero>>,
     <<FromInt(128), FromInt(127)>>,
     <<FromInt(1), FromInt(2), FromInt(3), FromInt(4), FromInt(255)>>}

BytesPutBytes == Packing /\ \E bytes \in ByteArrays : PutBytesCall(bytes, TRUE)

NextBytes ==
    \/ TripPutBit
    \/ BytesPutBytes
    \/ FinalGetBuffer
    \/ BuildUnpacker
    \/ MatchReadBit
    \/ MatchReadBytes

SpecBytes == Init /\ [][NextBytes]_vars

(***************************************************************************)
(* SpecFloat: floating point numbers.  putFloat32 and putFloat64 calls     *)
(* with single bits put between them, then getBuffer, an Unpacker, and the *)
(* reads in the order of the puts.                                         *)
(***************************************************************************)
\* a negative number, pi and the least subnormal of the width, and zero
Floats32 == {"-1.5", "pi", "min32"}

Floats64 == {"0", "-1.5", "pi", "min64"}

FloatPutFloat32 == Packing /\ \E num \in Floats32 : PutFloat32Call(num, TRUE)

FloatPutFloat64 == Packing /\ \E num \in Floats64 : PutFloat64Call(num, TRUE)

NextFloat ==
    \/ TripPutBit
    \/ FloatPutFloat32
    \/ FloatPutFloat64
    \/ FinalGetBuffer
    \/ BuildUnpacker
    \/ MatchReadBit
    \/ MatchReadFloat32
    \/ MatchReadFloat64

SpecFloat == Init /\ [][NextFloat]_vars

(***************************************************************************)
(* SpecBuffer: a ResizableUint8Array on its own.  It is constructed, then  *)
(* a caller makes calls on it: push, set, shift, an iteration, compact,    *)
(* clear, expand, with valid and invalid bytes.  The long buffer is first  *)
(* shifted up to the read cursor at which shift() compacts.                *)
(***************************************************************************)
MaxBufferCalls == 4

\* new ResizableUint8Array(length)
BufferLengths == {0, 9}

\* new ResizableUint8Array(number[]): no element, one byte, an invalid element
BufferNumbers == {<<>>, <<FromInt(7)>>, <<FromInt(1), FromInt(256)>>}

\* new ResizableUint8Array(Uint8Array): a store that is full from the start
BufferBytes == {<<11, 12, 13, 14, 15, 16, 17, 18>>, LongSource}

PushInputs == {FromInt(200), FromInt(256), PlusHalf(1)}

TenBytes == [i \in 1..10 |-> FromInt(20 + i)]

SetInputs == {<<FromInt(3), FromInt(4)>>, <<FromInt(5), FromInt(-1), FromInt(6)>>, TenBytes}

\* shift calls made in a row on the long buffer
DrainLength == 513

RECURSIVE shiftTimes(_)
\* s.n calls of shift, one after the other, s.ret what the last one returned;
\* the calls are walked by halves
shiftTimes(s) ==
    CASE s.n <= 0 -> s
      [] s.n = 1 ->
            CHOOSE y \in {[buf |-> r.buf, n |-> 0, ret |-> r.ret] : r \in {shift(s.buf)}} : TRUE
      [] s.n > 1 ->
            CHOOSE y \in {shiftTimes([r EXCEPT !.n = s.n - s.n \div 2]) :
                            r \in {shiftTimes([s EXCEPT !.n = s.n \div 2])}} : TRUE

\* the constructor returns the buffer buf, of which queue is the content
BufferNewOf(buf, arg, queue) ==
    /\ calls = <<>>
    /\ lastOp = "new"
    /\ buffer' = buf
    /\ prior' = buf
    /\ fifo' = queue
    /\ calls' = <<"new">>
    /\ lastArg' = arg
    /\ err' = "none"
    /\ UNCHANGED <<packer, before, lastOp, prevOp, ret, prevRet, nOps, nGetBytes,
                   nGetBuffer, stream, markBits, markGets, pads, fields,
                   unpackerVars, capacity>>

BufferNewLength == \E n \in BufferLengths : BufferNewOf(NewBufferOfLength(n), n, <<>>)

BufferNewBytes == \E bytes \in BufferBytes : BufferNewOf(NewBufferOfBytes(bytes), bytes, bytes)

\* the constructor that throws leaves no buffer to call
BufferNewNumbers ==
    \E arr \in BufferNumbers :
    \E r \in {NewBufferOfNumbers(arr)} :
        IF r.err = "none"
        THEN BufferNewOf(r.buf, arr, [i \in 1..Len(arr) |-> arr[i].lo])
        ELSE /\ calls = <<>>
             /\ lastOp = "new"
             /\ err' = r.err
             /\ lastArg' = arr
             /\ UNCHANGED <<packer, before, lastOp, prevOp, ret, prevRet, nOps,
                            nGetBytes, nGetBuffer, stream, markBits, markGets, pads,
                            fields, unpackerVars, bufferVars>>

\* there is a buffer, and calls left to make on it; the first call on the
\* long buffer is the run of shifts
Buffering ==
    /\ calls # <<>>
    /\ Len(calls) <= MaxBufferCalls
    /\ Len(buffer.inner) > 512 => Len(calls) > 1

\* the call op(arg) gives the buffer buf, throws e or returns out, and leaves
\* queue as the content
BufferCall(op, arg, buf, e, out, queue) ==
    /\ buffer' = buf
    /\ prior' = buffer
    /\ fifo' = queue
    /\ calls' = Append(calls, op)
    /\ lastOp' = op
    /\ prevOp' = lastOp
    /\ lastArg' = arg
    /\ err' = e
    /\ ret' = out
    /\ prevRet' = ret
    /\ UNCHANGED <<packer, before, nOps, nGetBytes, nGetBuffer, stream, markBits,
                   markGets, pads, fields, unpackerVars, capacity>>

BufferDrain ==
    /\ calls = <<"new">>
    /\ Len(buffer.inner) > 512
    /\ \E r \in {shiftTimes([buf |-> buffer, n |-> DrainLength, ret |-> <<>>])} :
          BufferCall("shift", <<>>, r.buf, "none", r.ret,
                     SubSeq(fifo, DrainLength + 1, Len(fifo)))

BufferPush ==
    /\ Buffering
    /\ \E v \in PushInputs :
       \E r \in {push(buffer, v)} :
          BufferCall("push", v, r.buf, r.err, <<>>,
                     IF r.err = "none" THEN Append(fifo, v.lo) ELSE fifo)

BufferSet ==
    /\ Buffering
    /\ \E arr \in SetInputs :
       \E r \in {set(buffer, arr)} :
          BufferCall("set", arr, r.buf, r.err, <<>>,
                     IF r.err = "none" THEN fifo \o [i \in 1..Len(arr) |-> arr[i].lo]
                     ELSE fifo)

BufferShift ==
    /\ Buffering
    /\ \E r \in {shift(buffer)} :
          BufferCall("shift", <<>>, r.buf, "none", r.ret,
                     IF fifo = <<>> THEN fifo ELSE Tail(fifo))

\* [...buffer]
BufferIterate ==
    /\ Buffering
    /\ \E r \in {iterate(buffer)} :
          BufferCall("iterate", <<>>, r.buf, "none", r.ret, <<>>)

BufferCompact == Buffering /\ BufferCall("compact", <<>>, compact(buffer), "none", <<>>, fifo)

BufferClear == Buffering /\ BufferCall("clear", <<>>, clear(buffer), "none", <<>>, <<>>)

BufferExpand == Buffering /\ BufferCall("expand", <<>>, expand(buffer), "none", <<>>, fifo)

NextBuffer ==
    \/ BufferNewLength
    \/ BufferNewBytes
    \/ BufferNewNumbers
    \/ BufferDrain
    \/ BufferPush
    \/ BufferSet
    \/ BufferShift
    \/ BufferIterate
    \/ BufferCompact
    \/ BufferClear
    \/ BufferExpand

SpecBuffer == Init /\ [][NextBuffer]_vars

(***************************************************************************)
(* SpecGrow: the growth of the store.  Of a buffer constructed with a      *)
(* length only the length of its store is kept (the variable capacity), so *)
(* that stores of any length a Uint8Array can have are covered.  expand    *)
(* is called on it any number of times, and set once, with an array of     *)
(* which only the length is kept (the buffer is empty until then).         *)
(***************************************************************************)
\* new ResizableUint8Array(length): small stores, and the two lengths between
\* which (length * 1.5) >> 0 stops being floor(1.5 * length)
GrowLengths == {LengthOf(0), LengthOf(1), LengthOf(9), LengthOf(1000),
                Num(21845, 21845), Num(21845, 21846)}

\* toAdd.length of the set call
GrowSetLengths == {LengthOf(0), LengthOf(9), LengthOf(100), Num(21845, 21847)}

GrowNew ==
    /\ calls = <<>>
    /\ lastOp = "new"
    /\ \E len \in GrowLengths :
          /\ capacity' = (IF Less(len, LengthOf(8)) THEN LengthOf(8) ELSE len)
          /\ lastArg' = len
    /\ calls' = <<"new">>
    /\ UNCHANGED <<packer, before, lastOp, prevOp, err, ret, prevRet, nOps, nGetBytes,
                   nGetBuffer, stream, markBits, markGets, pads, fields,
                   unpackerVars, buffer, prior, fifo>>

\* the call op(arg) leaves a store of length len and throws e or returns
GrowCall(op, arg, r) ==
    /\ calls # <<>>
    /\ capacity' = r.len
    /\ err' = r.err
    /\ lastOp' = op
    /\ prevOp' = lastOp
    /\ lastArg' = arg
    /\ UNCHANGED <<packer, before, ret, prevRet, nOps, nGetBytes, nGetBuffer, stream,
                   markBits, markGets, pads, fields, unpackerVars, buffer, prior, fifo>>

GrowExpand ==
    /\ "set" \notin {calls[i] : i \in 1..Len(calls)}
    /\ \E r \in {expandInner(capacity)} : GrowCall("expand", <<>>, r)
    /\ UNCHANGED calls

\* set(toAdd) on the empty buffer: writePosition is 0 before the call
GrowSet ==
    /\ "set" \notin {calls[i] : i \in 1..Len(calls)}
    /\ \E n \in GrowSetLengths :
       \E r \in {expandInnerWhile([len |-> capacity, needed |-> n])} :
          GrowCall("set", n, r)
    /\ calls' = Append(calls, "set")

NextGrow ==
    \/ GrowNew
    \/ GrowExpand
    \/ GrowSet

SpecGrow == Init /\ [][NextGrow]_vars

(***************************************************************************)
(* SpecBits: calls of putBits and putBit on one Packer, with sequences     *)
(* whose first element that is no bit comes first, in the middle of a byte *)
(* and after a byte was completed, and with sequences of bits only.        *)
(***************************************************************************)
MaxBitsCalls == 3

BitSequences ==
    {<<>>,
     <<1, 0, 1>>,
     <<2>>,
     <<1, 1, 0, 2, 1>>,
     <<0, 1, 1, 0, 1, 0, 0, 1>>,
     <<1, 0, 1, 1, 0, 0, 1, 0, 1, 1, 2, 0, 3>>}

BitsPutBits == nOps < MaxBitsCalls /\ \E bits \in BitSequences : PutBitsCall(bits, FALSE)

BitsPutBit == nOps < MaxBitsCalls /\ \E bit \in Bit : PutBitCall(bit, FALSE)

NextBits ==
    \/ BitsPutBits
    \/ BitsPutBit

SpecBits == Init /\ [][NextBits]_vars

(***************************************************************************)
(* SpecWire: the wire format of the signed integers.  On the Packer, up to *)
(* MaxWireCalls calls of putBit and of putInt8/16/32 with numbers the      *)
(* method accepts, the ends of its range among them; on an Unpacker built  *)
(* from given bytes, up to MaxWireCalls calls of readBit and of            *)
(* readInt8/16/32.                                                         *)
(***************************************************************************)
MaxWireCalls == 2

\* -2^(W-1), a number in the middle, -1, -1/2, 0, 1, 2^(W-1) - 1
WireInt8 ==
    {FromInt(-128), FromInt(-77), FromInt(-1), PlusHalf(-1), Zero, One, FromInt(127)}

WireInt16 ==
    {FromInt(-32768), FromInt(-300), FromInt(-1), Zero, One, FromInt(32767)}

WireInt32 ==
    {Num(-32768, 0), Num(-2, 4464), FromInt(-1), Zero, One, Num(32767, 65535)}

\* bytes whose fields start with a 0 and with a 1, aligned or one bit off
WireSources ==
    {<<128, 0, 0, 0, 127, 255, 255, 255, 1>>,
     <<255, 255, 255, 255, 0, 0, 0, 1, 200>>,
     <<77, 179, 128, 1, 254, 212, 64, 0, 0>>}

WirePutting == nOps < MaxWireCalls

WirePutBit == WirePutting /\ \E bit \in Bit : PutBitCall(bit, FALSE)

WirePutInt8 == WirePutting /\ \E num \in WireInt8 : PutInt8Call(num, FALSE)

WirePutInt16 == WirePutting /\ \E num \in WireInt16 : PutInt16Call(num, FALSE)

WirePutInt32 == WirePutting /\ \E num \in WireInt32 : PutInt32Call(num, FALSE)

WireUnpack == lastOp = "new" /\ \E bytes \in WireSources : NewUnpackerOf(bytes)

WireReading == phase = "unpack" /\ Len(reads) < MaxWireCalls

WireReadBit == WireReading /\ ReadBitCall

WireReadInt8 == WireReading /\ ReadInt8Call

WireReadInt16 == WireReading /\ ReadInt16Call

WireReadInt32 == WireReading /\ ReadInt32Call

NextWire ==
    \/ WirePutBit
    \/ WirePutInt8
    \/ WirePutInt16
    \/ WirePutInt32
    \/ WireUnpack
    \/ WireReadBit
    \/ WireReadInt8
    \/ WireReadInt16
    \/ WireReadInt32

SpecWire == Init /\ [][NextWire]_vars

(***************************************************************************)
(* SpecErrors: what the calls throw.  Up to MaxErrorCalls calls on the     *)
(* Packer, each method with inputs it accepts and inputs it refuses; the   *)
(* construction of an Unpacker from an array of numbers, bytes or not; up  *)
(* to MaxErrorCalls calls on the Unpacker, short of data for some.         *)
(***************************************************************************)
MaxErrorCalls == 2

ErrorBytes == {<<FromInt(1), FromInt(255)>>, <<FromInt(1), FromInt(256), FromInt(2)>>}

\* arrays of bytes, and arrays holding 256 and 1.5
UnpackerNumbers ==
    {<<>>,
     <<FromInt(160)>>,
     <<FromInt(1), FromInt(2), FromInt(3), FromInt(4), FromInt(5)>>,
     <<FromInt(1), FromInt(256)>>,
     <<FromInt(7), PlusHalf(1)>>}

\* a size the data covers and one it does not
ErrorSizes == {3, 17}

\* numbers the puts refuse, and for putUint8 one it accepts
ErrorUint8 == {FromInt(255), FromInt(256), FromInt(-1)}

ErrorUint16 == {Num(1, 0)}

ErrorUint32 == {FromInt(-1)}

ErrorInt8 == {FromInt(-129)}

ErrorInt16 == {FromInt(32768)}

ErrorInt32 == {Num(-32769, 65535)}

ErrorsPutting == nOps < MaxErrorCalls

ErrorsPutBit == ErrorsPutting /\ \E bit \in BitInputs : PutBitCall(bit, FALSE)

ErrorsPutBits == ErrorsPutting /\ \E bits \in BitsInputs : PutBitsCall(bits, FALSE)

ErrorsPutBytes == ErrorsPutting /\ \E bytes \in ErrorBytes : PutBytesCall(bytes, FALSE)

ErrorsPutUint8 == ErrorsPutting /\ \E num \in ErrorUint8 : PutUint8Call(num, FALSE)

ErrorsPutUint16 == ErrorsPutting /\ \E num \in ErrorUint16 : PutUint16Call(num, FALSE)

ErrorsPutUint32 == ErrorsPutting /\ \E num \in ErrorUint32 : PutUint32Call(num, FALSE)

ErrorsPutInt8 == ErrorsPutting /\ \E num \in ErrorInt8 : PutInt8Call(num, FALSE)

ErrorsPutInt16 == ErrorsPutting /\ \E num \in ErrorInt16 : PutInt16Call(num, FALSE)

ErrorsPutInt32 == ErrorsPutting /\ \E num \in ErrorInt32 : PutInt32Call(num, FALSE)

ErrorsPutFloat32 == ErrorsPutting /\ \E num \in Float32Inputs : PutFloat32Call(num, FALSE)

ErrorsPutFloat64 == ErrorsPutting /\ \E num \in Float64Inputs : PutFloat64Call(num, FALSE)

ErrorsGetBytes == ErrorsPutting /\ GetBytesCall

ErrorsGetBuffer == ErrorsPutting /\ GetBufferCall

\* new Unpacker(arr): the Unpacker when the constructor returns; when it
\* throws there is none
ErrorsNewUnpacker ==
    /\ lastOp = "new"
    /\ \E arr \in UnpackerNumbers :
       \E r \in {NewUnpackerOfNumbers(arr)} :
          /\ err' = r.err
          /\ lastOp' = "newUnpacker"
          /\ lastArg' = arr
          /\ IF r.err = "none"
             THEN /\ unpacker' = r.u
                  /\ phase' = "unpack"
                  /\ source' = toArray(r.u.bytes)
                  /\ consumed' = 0
                  /\ UNCHANGED reads
             ELSE UNCHANGED unpackerVars
          /\ UNCHANGED <<packer, before, prevOp, ret, prevRet, nOps, nGetBytes,
                         nGetBuffer, stream, markBits, markGets, pads, fields,
                         bufferVars>>

ErrorsReading == phase = "unpack" /\ Len(reads) < MaxErrorCalls

ErrorsReadBit == ErrorsReading /\ ReadBitCall

ErrorsReadBits == ErrorsReading /\ \E n \in ErrorSizes : ReadBitsCall(n)

ErrorsPeek == ErrorsReading /\ \E n \in ErrorSizes : PeekCall(n)

ErrorsReadBytes == ErrorsReading /\ ReadBytesCall(2)

ErrorsReadUint8 == ErrorsReading /\ ReadUint8Call

ErrorsReadUint16 == ErrorsReading /\ ReadUint16Call

ErrorsReadUint32 == ErrorsReading /\ ReadUint32Call

ErrorsReadInt8 == ErrorsReading /\ ReadInt8Call

ErrorsReadInt16 == ErrorsReading /\ ReadInt16Call

ErrorsReadInt32 == ErrorsReading /\ ReadInt32Call

ErrorsReadFloat32 == ErrorsReading /\ ReadFloat32Call

ErrorsReadFloat64 == ErrorsReading /\ ReadFloat64Call

NextErrors ==
    \/ ErrorsPutBit
    \/ ErrorsPutBits
    \/ ErrorsPutBytes
    \/ ErrorsPutUint8
    \/ ErrorsPutUint16
    \/ ErrorsPutUint32
    \/ ErrorsPutInt8
    \/ ErrorsPutInt16
    \/ ErrorsPutInt32
    \/ ErrorsPutFloat32
    \/ ErrorsPutFloat64
    \/ ErrorsGetBytes
    \/ ErrorsGetBuffer
    \/ ErrorsNewUnpacker
    \/ ErrorsReadBit
    \/ ErrorsReadBits
    \/ ErrorsPeek
    \/ ErrorsReadBytes
    \/ ErrorsReadUint8
    \/ ErrorsReadUint16
    \/ ErrorsReadUint32
    \/ ErrorsReadInt8
    \/ ErrorsReadInt16
    \/ ErrorsReadInt32
    \/ ErrorsReadFloat32
    \/ ErrorsReadFloat64

SpecErrors == Init /\ [][NextErrors]_vars

(***************************************************************************)
(* SpecPeek: the length of the Unpacker's bit queue.  An Unpacker built    *)
(* from 14 bytes or from 2, and up to MaxPeekCalls calls on it: reads that *)
(* leave it on and off a byte boundary, and peeks of a few bits, of 57, of *)
(* 64 and of the 100 bits of the benchmark.                                *)
(***************************************************************************)
MaxPeekCalls == 3

PeekSources == {[i \in 1..14 |-> (i * 37) % 256], <<160, 5>>}

LongPeeks == {4, 57, 64, 100}

PeekUnpack == lastOp = "new" /\ \E bytes \in PeekSources : NewUnpackerOf(bytes)

Peeking == phase = "unpack" /\ Len(reads) < MaxPeekCalls

PeekReadBit == Peeking /\ ReadBitCall

PeekReadBits == Peeking /\ ReadBitsCall(3)

PeekReadUint8 == Peeking /\ ReadUint8Call

PeekReadFloat64 == Peeking /\ ReadFloat64Call

PeekPeek == Peeking /\ \E n \in LongPeeks : PeekCall(n)

NextPeek ==
    \/ PeekUnpack
    \/ PeekReadBit
    \/ PeekReadBits
    \/ PeekReadUint8
    \/ PeekReadFloat64
    \/ PeekPeek

SpecPeek == Init /\ [][NextPeek]_vars

(***************************************************************************)
(* SpecExact: one number through the codec, integer or not.  One put on a  *)
(* fresh Packer with a number at an end of the method's range, inside it   *)
(* or outside, an integer or an integer and a half; when the put returns,  *)
(* getBuffer, an Unpacker on the result and the matching read.             *)
(***************************************************************************)
\* n and n + 1/2 for n around the ends of 0 .. 2^W - 1
ExactUint8 ==
    {FromInt(n) : n \in {-1, 0, 1, 254, 255, 256}}
        \cup {PlusHalf(n) : n \in {-1, 0, 1, 254, 255}}

ExactUint16 ==
    {FromInt(n) : n \in {-1, 0, 1, 65535, 65536}}
        \cup {PlusHalf(n) : n \in {-1, 1, 65534, 65535}}

ExactUint32 ==
    {FromInt(-1), Zero, One, Num(65535, 65535), Num(65536, 0),
     PlusHalf(1), [hi |-> 65535, lo |-> 65535, frac |-> 1]}

\* n and n + 1/2 for n around the ends of -2^(W-1) .. 2^(W-1) - 1 and around 0
ExactInt8 ==
    {FromInt(n) : n \in {-129, -128, -1, 0, 1, 127, 128}}
        \cup {PlusHalf(n) : n \in {-129, -128, -1, 0, 126, 127}}

ExactInt16 ==
    {FromInt(n) : n \in {-32769, -32768, -1, 0, 32767, 32768}}
        \cup {PlusHalf(n) : n \in {-32768, -1, 0, 32767}}

ExactInt32 ==
    {Num(-32769, 65535), Num(-32768, 0), FromInt(-1), Zero, Num(32767, 65535),
     Num(32768, 0), PlusHalf(-1), PlusHalf(1), [hi |-> -32768, lo |-> 0, frac |-> 1]}

ExactPutUint8 == First /\ \E num \in ExactUint8 : PutUint8Call(num, TRUE)

ExactPutUint16 == First /\ \E num \in ExactUint16 : PutUint16Call(num, TRUE)

ExactPutUint32 == First /\ \E num \in ExactUint32 : PutUint32Call(num, TRUE)

ExactPutInt8 == First /\ \E num \in ExactInt8 : PutInt8Call(num, TRUE)

ExactPutInt16 == First /\ \E num \in ExactInt16 : PutInt16Call(num, TRUE)

ExactPutInt32 == First /\ \E num \in ExactInt32 : PutInt32Call(num, TRUE)

NextExact ==
    \/ ExactPutUint8
    \/ ExactPutUint16
    \/ ExactPutUint32
    \/ ExactPutInt8
    \/ ExactPutInt16
    \/ ExactPutInt32
    \/ FinalGetBuffer
    \/ BuildUnpacker
    \/ MatchReadUint8
    \/ MatchReadUint16
    \/ MatchReadUint32
    \/ MatchReadInt8
    \/ MatchReadInt16
    \/ MatchReadInt32

SpecExact == Init /\ [][NextExact]_vars

(***************************************************************************)
(* What the properties speak of                                            *)
(***************************************************************************)
\* the byte number j of a bit sequence read most significant bit first, the
\* bits missing from the last byte taken as 0
ByteAt(bits, j) ==
    LET b(k) == IF 8 * (j - 1) + k <= Len(bits) THEN bits[8 * (j - 1) + k] ELSE 0
    IN  128 * b(1) + 64 * b(2) + 32 * b(3) + 16 * b(4) + 8 * b(5) + 4 * b(6) + 2 * b(7) + b(8)

\* the ceil(k / 8) bytes of a sequence of k bits, zero padding after the last bit
PackedBytes(bits) == [j \in 1..((Len(bits) + 7) \div 8) |-> ByteAt(bits, j)]

\* the elements of a sequence after the first n
Drop(seq, n) == SubSeq(seq, n + 1, Len(seq))

UintPuts == {"putUint8", "putUint16", "putUint32"}

UintReads == {"readUint8", "readUint16", "readUint32"}

IntPuts == {"putInt8", "putInt16", "putInt32"}

IntReads == {"readInt8", "readInt16", "readInt32"}

Extractions == {"getBytes", "getBuffer"}

(***************************************************************************)
(* Properties of SpecCodec                                                 *)
(***************************************************************************)
\* C1: unsigned round trip.  putUintW(x) with 0 <= x < 2^W on a fresh Packer
\* returns, and after getBuffer readUintW on an Unpacker built from the buffer
\* returns exactly x.
C1_UnsignedRoundTrip ==
    /\ lastOp \in UintPuts => err = "none"
    /\ \A i \in 1..Len(reads) :
          reads[i].op \in UintReads =>
              /\ fields[i].op \in UintPuts
              /\ reads[i].err = "none"
              /\ reads[i].ret = fields[i].arg

\* x = 2^31 has come back from readUint32
C1_Witness ==
    /\ Len(reads) = 1
    /\ fields[1].op = "putUint32"
    /\ fields[1].arg = Num(32768, 0)
    /\ reads[1].op = "readUint32"
    /\ reads[1].err = "none"
    /\ reads[1].ret = Num(32768, 0)

\* C2: signed round trip.  putIntW(x) with -2^(W-1) <= x <= 2^(W-1) - 1 on a
\* fresh Packer returns, and after getBuffer readIntW on an Unpacker built from
\* the buffer returns exactly x.
C2_SignedRoundTrip ==
    /\ lastOp \in IntPuts => err = "none"
    /\ \A i \in 1..Len(reads) :
          reads[i].op \in IntReads =>
              /\ fields[i].op \in IntPuts
              /\ reads[i].err = "none"
              /\ reads[i].ret = fields[i].arg

\* x = -2^31 has come back from readInt32
C2_Witness ==
    /\ Len(reads) = 1
    /\ fields[1].op = "putInt32"
    /\ fields[1].arg = Num(-32768, 0)
    /\ reads[1].op = "readInt32"
    /\ reads[1].err = "none"
    /\ reads[1].ret = Num(-32768, 0)

\* C4: most significant bit first.  After putUint8(v) on a fresh Packer the
\* buffer getBuffer returns is the single byte v, and readBits(8) returns the 8
\* binary digits of v, the k-th (k = 0..7) being floor(v / 2^(7-k)) mod 2.
C4_MsbFirst ==
    /\ lastOp = "getBuffer" /\ fields[1].op = "putUint8" =>
          err = "none" /\ ret = <<fields[1].arg.lo>>
    /\ \A i \in 1..Len(reads) :
          reads[i].op = "readBits" =>
              /\ reads[i].err = "none"
              /\ reads[i].ret =
                    [k \in 1..8 |-> (fields[i].arg.lo \div (2 ^ (8 - k))) % 2]

\* 0b10110010 has been read back as 1,0,1,1,0,0,1,0
C4_Witness ==
    /\ Len(reads) = 1
    /\ fields[1].op = "putUint8"
    /\ fields[1].arg = FromInt(178)
    /\ reads[1].op = "readBits"
    /\ reads[1].err = "none"
    /\ reads[1].ret = <<1, 0, 1, 1, 0, 0, 1, 0>>

(***************************************************************************)
(* Properties of SpecTrip                                                  *)
(***************************************************************************)
\* C3: contiguous packing of mixed fields.  After successful puts on a fresh
\* Packer and one getBuffer, the buffer is the bits of the fields one after the
\* other with zero padding after the last only; the matching reads on an
\* Unpacker built from it return the values put, in order, and leave nothing but
\* that padding.
C3_ContiguousFields ==
    /\ lastOp = "getBuffer" => err = "none" /\ ret = PackedBytes(stream)
    /\ \A i \in 1..Len(reads) :
          /\ reads[i].err = "none"
          /\ reads[i].ret = fields[i].arg
    /\ phase = "unpack" /\ Len(reads) = Len(fields) =>
          remaining(unpacker) = (8 - (Len(stream) % 8)) % 8

\* a bit, a 32-bit integer that starts one bit into a byte and a bit sequence
\* that starts 33 bits in have been read back
C3_Witness ==
    /\ Len(fields) = 3
    /\ Len(reads) = 3
    /\ fields[1].op = "putBit"
    /\ fields[2].op = "putUint32"
    /\ fields[3].op = "putBits"
    /\ fields[2].arg = Num(32768, 1)
    /\ reads[2].ret = Num(32768, 1)
    /\ reads[3].ret = fields[3].arg
    /\ Len(stream) % 8 # 0

(***************************************************************************)
(* Properties of Spec                                                      *)
(***************************************************************************)
\* C5: padding on first finalization.  The first getBuffer or getBytes on a
\* Packer into which k bits were put returns ceil(k / 8) bytes: the bits in
\* order, most significant first, the k mod 8 leftover bits in the high-order
\* positions of the last byte and 0 below them; no byte is added when
\* k mod 8 = 0.
C5_PaddingOnFirstExtraction ==
    lastOp \in Extractions /\ nGetBytes + nGetBuffer = 1 =>
        /\ err = "none"
        /\ Len(ret) = (Len(stream) + 7) \div 8
        /\ ret = PackedBytes(stream)

\* 12 bits have been put and the first getBuffer returned 2 bytes, the low 4
\* bits of the second 0
C5_Witness ==
    /\ lastOp = "getBuffer"
    /\ nGetBytes + nGetBuffer = 1
    /\ Len(stream) = 12
    /\ stream[11] = 1
    /\ Len(ret) = 2
    /\ ret[2] = 32

\* C10: size accounting.  With no getBytes or getBuffer call made, size() is
\* the number of bits put: 1 for putBit, |s| for putBits(s), W for putUintW and
\* putIntW, 32 and 64 for putFloat32 and putFloat64, 8 * |s| for putBytes(s)
\* (of a put that throws, the bits it handed over before it threw); it is
\* 8 * (bytes flushed) + (pending bits).
C10_SizeAccounting ==
    nGetBytes = 0 /\ nGetBuffer = 0 =>
        /\ size(packer) = Len(stream)
        /\ size(packer) = 8 * packer.bytes.writePosition + Len(packer.bits)

\* a 16-bit integer then 4 bits: size() is 20
C10_Witness ==
    /\ nOps = 2
    /\ prevOp = "putInt16"
    /\ lastOp = "putBits"
    /\ err = "none"
    /\ size(packer) = 20

PutOps ==
    {"putBit", "putBits", "putBytes", "putUint8", "putUint16", "putUint32",
     "putInt8", "putInt16", "putInt32", "putFloat32", "putFloat64"}

\* the bits the last put handed over: the tail of the stream that size() grew by
LastAdded == Drop(stream, Len(stream) - (size(packer) - size(before)))

\* C21: bit-queue bound.  After every Packer call, successful or failed, the
\* queue of pending bits holds 0..7 bits.  A put hands its bits to the queue in
\* order; each bit that makes the queue 8 long pushes exactly one byte, the
\* MSB-first value of those 8 bits, and empties the queue.
C21_BitQueueBound ==
    /\ Len(packer.bits) \in 0..7
    /\ lastOp \in PutOps =>
          LET all == before.bits \o LastAdded
              whole == SubSeq(all, 1, 8 * (Len(all) \div 8))
          IN  /\ packer.bits = Drop(all, Len(whole))
              /\ toArray(packer.bytes) = toArray(before.bytes) \o PackedBytes(whole)

\* four bits were pending and putBits hands over four more: the byte 0x22 is
\* pushed and the queue is empty
C21_Witness ==
    /\ lastOp = "putBits"
    /\ err = "none"
    /\ Len(before.bits) = 4
    /\ packer.bits = <<>>
    /\ toArray(packer.bytes) = <<34>>
    /\ toArray(before.bytes) = <<>>

(***************************************************************************)
(* Properties of SpecExtract                                               *)
(***************************************************************************)
\* C6: getBuffer is idempotent.  On a Packer holding 1..7 pending bits, a
\* second getBuffer made immediately after the first returns the same bytes as
\* the first.
C6_GetBufferIdempotent ==
    /\ lastOp = "getBuffer"
    /\ prevOp = "getBuffer"
    /\ Len(stream) % 8 \in 1..7
    => ret = prevRet

\* there has been no extraction yet or, where the last call was one, none
\* before it, made while the bit queue held 1..7 bits
NoPaddingBefore ==
    pads = IF lastOp \in Extractions /\ Len(stream) % 8 # 0 THEN 1 ELSE 0

C8_GetBytesOnce ==
    [][/\ nGetBytes' = nGetBytes + 1
       /\ nGetBytes >= 1
       /\ markBits % 8 = 0
       /\ markGets = nGetBuffer
       /\ Len(stream) - markBits \in 1..7
       => /\ err' = "none"
          /\ Len(ret') = 1
          /\ ret' = PackedBytes(Drop(stream, markBits))]_vars

\* putUint8(127); getBytes() = [127]; putBits([0,0,1,0]); getBytes() = [32]
C8_Witness ==
    /\ lastOp = "getBytes"
    /\ prevOp = "putBits"
    /\ nGetBytes = 2
    /\ nGetBuffer = 0
    /\ markBits = 12
    /\ stream = <<0, 1, 1, 1, 1, 1, 1, 1, 0, 0, 1, 0>>
    /\ ret = <<32>>

\* C9: extraction in the middle of a stream.  After any interleaving of puts
\* and getBuffer calls, getBuffer returns ceil(k / 8) bytes, k the number of
\* bits put so far: the k bits in order followed by zero padding; an Unpacker
\* built from them reports remaining() = 8 * ceil(k / 8).
C9_MidStreamExtraction ==
    lastOp = "getBuffer" /\ nGetBytes = 0 =>
        /\ err = "none"
        /\ Len(ret) = (Len(stream) + 7) \div 8
        /\ ret = PackedBytes(stream)
        /\ remaining(NewUnpacker(ret)) = 8 * ((Len(stream) + 7) \div 8)

(***************************************************************************)
(* Properties of SpecPut                                                   *)
(***************************************************************************)
\* the put methods that take one number, and the width each one writes
UintWidth == [putUint8 |-> 8, putUint16 |-> 16, putUint32 |-> 32]

IntWidth == [putInt8 |-> 8, putInt16 |-> 16, putInt32 |-> 32]

\* what a put method does to a Packer p when called with arg
PutOf(op, p, arg) ==
    CASE op = "putBit"    -> putBit(p, arg)
      [] op = "putBits"   -> putBits(p, arg)
      [] op = "putBytes"  -> putBytes(p, arg)
      [] op = "putUint8"  -> putUint8(p, arg)
      [] op = "putUint16" -> putUint16(p, arg)
      [] op = "putUint32" -> putUint32(p, arg)
      [] op = "putInt8"   -> putInt8(p, arg)
      [] op = "putInt16"  -> putInt16(p, arg)
      [] op = "putInt32"  -> putInt32(p, arg)

\* C11: putBit(v) with v neither 0 nor 1 throws an InvalidBitError whatever the
\* Packer holds, and leaves the pending bits, the flushed bytes and size() as
\* they were; the put that follows a refused putBit does to the Packer what it
\* does to the Packer as it was before the refused call.
C11_InvalidBitRejected ==
    [][ /\ (lastOp' = "putBit" /\ nOps' = nOps + 1 /\ lastArg' \notin {0, 1})
            => /\ err' = "InvalidBitError"
               /\ packer'.bits = packer.bits
               /\ packer'.bytes = packer.bytes
               /\ size(packer') = size(packer)
               /\ stream' = stream
        /\ (lastOp' = "putBit" /\ nOps' = nOps + 1 /\ lastArg' \in {0, 1})
            => err' # "InvalidBitError"
        /\ (lastOp = "putBit" /\ err = "InvalidBitError" /\ nOps' = nOps + 1)
            => /\ packer' = PutOf(lastOp', before, lastArg').p
               /\ err' = PutOf(lastOp', before, lastArg').err
      ]_vars

\* putUint8(255), putBit(1), then putBit(2) refused in the middle of a byte
\* with one byte flushed
C11_Witness ==
    /\ lastOp = "putBit"
    /\ lastArg = 2
    /\ err = "InvalidBitError"
    /\ packer.bits = <<1>>
    /\ length(packer.bytes) = 1
    /\ before = packer
    /\ nOps = 3

\* x < 0 or x >= 2^w
OutsideUint(x, w) == Less(x, Zero) \/ ~Less(x, Pow2(w))

\* x < -2^(w-1) or x > 2^(w-1) - 1
OutsideInt(x, w) == Less(x, Neg(Pow2(w - 1))) \/ Less(Sub(Pow2(w - 1), One), x)

\* this step is a call of a put method named in widths
PutStepOf(widths) == nOps' = nOps + 1 /\ lastOp' \in DOMAIN widths

\* this step left the Packer and what it holds as they were
NothingEmitted ==
    /\ packer'.bits = packer.bits
    /\ packer'.bytes = packer.bytes
    /\ size(packer') = size(packer)
    /\ stream' = stream

\* C12: putUintW(x) throws a RangeError exactly when x < 0 or x >= 2^W, and
\* putIntW(x), x an integer, exactly when x < -2^(W-1) or x > 2^(W-1) - 1;
\* the call that throws emits no bit (pending bits, flushed bytes and size()
\* stay as they were, in the middle of a byte too), the call that does not
\* throw emits W bits.
C12_EncodeRangeCheck ==
    [][ /\ PutStepOf(UintWidth)
            => /\ err' = IF OutsideUint(lastArg', UintWidth[lastOp'])
                         THEN "RangeError" ELSE "none"
               /\ err' = "RangeError" => NothingEmitted
               /\ err' = "none" => size(packer') = size(packer) + UintWidth[lastOp']
        /\ (PutStepOf(IntWidth) /\ IsInteger(lastArg'))
            => /\ err' = IF OutsideInt(lastArg', IntWidth[lastOp'])
                         THEN "RangeError" ELSE "none"
               /\ err' = "RangeError" => NothingEmitted
               /\ err' = "none" => size(packer') = size(packer) + IntWidth[lastOp']
      ]_vars

\* putUint8(255), putBit(1), then putInt16(32768) refused in the middle of a
\* byte with one byte flushed
C12_Witness ==
    /\ lastOp = "putInt16"
    /\ lastArg = FromInt(32768)
    /\ err = "RangeError"
    /\ packer.bits = <<1>>
    /\ toArray(packer.bytes) = <<255>>
    /\ before = packer
    /\ nOps = 3

(***************************************************************************)
(* Properties of SpecUnpack                                                *)
(***************************************************************************)
\* the bits of the source, in the order of the wire
SourceBits ==
    [i \in 1..(8 * Len(source)) |->
        (source[(i - 1) \div 8 + 1] \div (2 ^ (7 - ((i - 1) % 8)))) % 2]

\* the n bits of the source after the ones the reads have passed
Upcoming(n) == SubSeq(SourceBits, consumed + 1, consumed + n)

\* this step is a call of the Unpacker method op
ReadStep(op) == phase = "unpack" /\ Len(reads') = Len(reads) + 1 /\ lastOp' = op

\* C13: readBit throws a RangeError exactly when remaining() is 0 before the
\* call, and returns the next bit of the data otherwise; on an Unpacker
\* constructed from one byte the first readUint8 returns the byte and the
\* second readUint8 throws a RangeError.
C13_EndOfStream ==
    [][ /\ ReadStep("readBit")
            => IF remaining(unpacker) = 0
               THEN err' = "RangeError" /\ remaining(unpacker') = 0
               ELSE /\ err' = "none"
                    /\ ret' = <<SourceBits[consumed + 1]>>
        /\ (ReadStep("readUint8") /\ Len(source) = 1 /\ reads = <<>>)
            => /\ err' = "none"
               /\ ret' = <<FromInt(source[1])>>
        /\ (/\ ReadStep("readUint8")
            /\ Len(source) = 1
            /\ Len(reads) = 1
            /\ reads[1].op = "readUint8")
            => err' = "RangeError"
      ]_vars

\* the byte 160: readUint8 returns it, the next readUint8 throws, and the
\* readBit after that finds remaining() = 0 and throws
C13_Witness ==
    /\ source = <<160>>
    /\ Len(reads) = 3
    /\ reads[1].op = "readUint8"
    /\ reads[1].err = "none"
    /\ reads[1].ret = FromInt(160)
    /\ reads[2].op = "readUint8"
    /\ reads[2].err = "RangeError"
    /\ lastOp = "readBit"
    /\ err = "RangeError"
    /\ remaining(unpacker) = 0

\* the last call was a peek that returned
Peeked == phase = "unpack" /\ lastOp = "peek" /\ err = "none"

\* C14: peek(n) with n <= remaining() returns the next n unread bits of the
\* data and takes none of them; the peek(n) made right after a peek(n) returns
\* the same sequence, and so does the readBits(n) made after it.
C14_PeekDoesNotConsume ==
    [][ /\ (ReadStep("peek") /\ lastArg' <= remaining(unpacker))
            => /\ err' = "none"
               /\ ret' = <<Upcoming(lastArg')>>
               /\ remaining(unpacker') = remaining(unpacker)
        /\ (Peeked /\ ReadStep("peek") /\ lastArg' = lastArg)
            => err' = "none" /\ ret' = ret
        /\ (Peeked /\ ReadStep("readBits") /\ lastArg' = lastArg)
            => err' = "none" /\ ret' = ret
      ]_vars

\* the bytes 1, 2: peek(9), peek(9) and readBits(9) all return 000000010
C14_Witness ==
    /\ source = <<1, 2>>
    /\ Len(reads) = 3
    /\ reads[1].op = "peek"
    /\ reads[2].op = "peek"
    /\ reads[3].op = "readBits"
    /\ reads[1].ret = <<0, 0, 0, 0, 0, 0, 0, 1, 0>>
    /\ reads[2].ret = reads[1].ret
    /\ reads[3].ret = reads[1].ret
    /\ consumed = 9

\* C15: peek(n) throws exactly when n > remaining(); for n <= remaining(),
\* n = 0 on an Unpacker with nothing left included, it returns n bits.
C15_PeekFailsWhenShort ==
    [][ ReadStep("peek")
        => IF lastArg' > remaining(unpacker)
           THEN err' = "Error" /\ remaining(unpacker') = remaining(unpacker)
           ELSE /\ err' = "none"
                /\ Len(ret'[1]) = lastArg'
                /\ \A i \in 1..lastArg' : ret'[1][i] \in Bit
      ]_vars

\* the byte 160 read whole, then peek(0) returns no bit and peek(4) throws
C15_Witness ==
    /\ source = <<160>>
    /\ Len(reads) = 3
    /\ reads[1].op = "readUint8"
    /\ reads[1].err = "none"
    /\ reads[2].op = "peek"
    /\ reads[2].err = "none"
    /\ reads[2].ret = <<>>
    /\ lastOp = "peek"
    /\ lastArg = 4
    /\ err = "Error"
    /\ remaining(unpacker) = 0

\* the bits a successful call of the read method op with argument arg reads
BitsRead(op, arg) ==
    CASE op = "readBit" -> 1
      [] op = "readBits" -> arg
      [] op = "readBytes" -> 8 * arg
      [] op = "peek" -> 0
      [] op \in {"readUint8", "readInt8"} -> 8
      [] op \in {"readUint16", "readInt16"} -> 16
      [] op \in {"readUint32", "readInt32"} -> 32

\* C16: an Unpacker constructed from L bytes reports remaining() = 8 * L;
\* after every call remaining() is the number of bits in the bit queue plus
\* 8 times the number of unread bytes of the buffer, and is what is left of
\* the data; a successful readBit lowers it by 1 and a successful readBits(n)
\* or typed read of n bits by n.
C16_RemainingAccounting ==
    [][ /\ (phase = "pack" /\ phase' = "unpack")
            => remaining(unpacker') = 8 * Len(source')
        /\ phase' = "unpack"
            => /\ remaining(unpacker')
                    = Len(unpacker'.bits) + 8 * Len(toArray(unpacker'.bytes))
               /\ remaining(unpacker') = 8 * Len(source') - consumed'
        /\ (phase = "unpack" /\ Len(reads') = Len(reads) + 1 /\ err' = "none")
            => remaining(unpacker')
                 = remaining(unpacker) - BitsRead(lastOp', lastArg')
      ]_vars

\* five bytes: readBits(3), readUint16 and readBit leave 40 - 20 bits, four
\* of them in the bit queue
C16_Witness ==
    /\ Len(source) = 5
    /\ Len(reads) = 3
    /\ reads[1].op = "readBits"
    /\ reads[2].op = "readUint16"
    /\ lastOp = "readBit"
    /\ err = "none"
    /\ consumed = 20
    /\ remaining(unpacker) = 20
    /\ Len(unpacker.bits) = 4

\* the reads that go through readBits
ReadBitsOps == {"readBits", "readBytes"} \cup UintReads \cup IntReads

\* C22: readBits has no rollback and no partial result.  A readBits(n), a
\* readBytes or a typed integer read that asks for more bits than remaining()
\* throws a RangeError, and has taken every bit that was left: remaining() is
\* 0 after it, the bit queue and the byte buffer are empty.
C22_NoRollbackNoPartialResult ==
    [][ \A op \in ReadBitsOps :
          (ReadStep(op) /\ BitsRead(op, lastArg') > remaining(unpacker))
            => /\ err' = "RangeError"
               /\ remaining(unpacker') = 0
               /\ unpacker'.bits = <<>>
               /\ isEmpty(unpacker'.bytes)
               /\ consumed' = 8 * Len(source)
      ]_vars

\* the bytes 1, 2: readBits(9) leaves 7 bits, readUint8 throws and leaves none
C22_Witness ==
    /\ source = <<1, 2>>
    /\ Len(reads) = 2
    /\ reads[1].op = "readBits"
    /\ reads[1].err = "none"
    /\ Len(reads[1].ret) = 9
    /\ lastOp = "readUint8"
    /\ err = "RangeError"
    /\ remaining(unpacker) = 0

\* the calls u and v answer alike: same outcome, same value
SameAnswers(u, v) ==
    /\ readBit(u).err = readBit(v).err
    /\ readBit(u).ret = readBit(v).ret
    /\ \A n \in ReadSizes \cup {remaining(v)} :
          /\ readBits(u, n).err = readBits(v, n).err
          /\ readBits(u, n).ret = readBits(v, n).ret
          /\ peek(u, n).err = peek(v, n).err
          /\ peek(u, n).ret = peek(v, n).ret

\* C23: a failed peek consumes nothing and exhaustion is not sticky.  After a
\* peek(n) that throws, remaining() is what it was before the call, readBit,
\* readBits and peek answer as they would have without the peek, and
\* readBits(remaining()) returns all the bits that are left.
C23_FailedPeekConsumesNothing ==
    [][ (ReadStep("peek") /\ err' # "none")
          => /\ lastArg' > remaining(unpacker)
             /\ remaining(unpacker') = remaining(unpacker)
             /\ consumed' = consumed
             /\ SameAnswers(unpacker', unpacker)
             /\ readBits(unpacker', remaining(unpacker')).err = "none"
             /\ readBits(unpacker', remaining(unpacker')).ret
                    = Upcoming(remaining(unpacker))
      ]_vars

\* the bytes 1, 2: after readUint8 the peek(9) throws, having moved the last
\* byte to the bit queue; the 8 bits of the byte 2 are still there to read
C23_Witness ==
    /\ source = <<1, 2>>
    /\ Len(reads) = 2
    /\ reads[1].op = "readUint8"
    /\ lastOp = "peek"
    /\ lastArg = 9
    /\ err = "Error"
    /\ remaining(unpacker) = 8
    /\ Len(unpacker.bits) = 8
    /\ readBits(unpacker, 8).ret = <<0, 0, 0, 0, 0, 0, 1, 0>>

\* the calls made on the Unpacker are readBit, readBits and peek calls only
BitReadsOnly == \A i \in 1..Len(reads) : reads[i].op \in {"readBit", "readBits", "peek"}

RECURSIVE ReadSoFar(_)
\* the bits the first i calls returned, peeks left out, in the order of the calls
ReadSoFar(i) ==
    IF i = 0 THEN <<>>
    ELSE ReadSoFar(i - 1) \o
         (IF reads[i].err # "none" THEN <<>>
          ELSE IF reads[i].op = "readBit" THEN <<reads[i].ret>>
          ELSE IF reads[i].op = "readBits" THEN reads[i].ret
          ELSE <<>>)

\* C24: the Unpacker is a cursor over the bits of the bytes it was constructed
\* from, each byte most significant bit first.  Over readBit, readBits and
\* peek calls, the bits the successful reads returned, put end to end, are a
\* prefix of that bit string, and a successful peek returned the bits that
\* follow the ones read before it.
C24_CursorOverBits ==
    (phase = "unpack" /\ BitReadsOnly) =>
        /\ ReadSoFar(Len(reads)) = SubSeq(SourceBits, 1, Len(ReadSoFar(Len(reads))))
        /\ \A i \in 1..Len(reads) :
              (reads[i].op = "peek" /\ reads[i].err = "none")
                => reads[i].ret = SubSeq(SourceBits,
                                         Len(ReadSoFar(i - 1)) + 1,
                                         Len(ReadSoFar(i - 1)) + Len(reads[i].ret))

\* the bytes 255, 0, ...: readBit returns 1, peek(9) returns the seven 1s
\* left of the first byte and two 0s of the second, readBits(9) returns the same
C24_Witness ==
    /\ Len(source) = 5
    /\ Len(reads) = 3
    /\ reads[1].op = "readBit"
    /\ reads[1].ret = 1
    /\ reads[2].op = "peek"
    /\ reads[2].ret = <<1, 1, 1, 1, 1, 1, 1, 0, 0>>
    /\ reads[3].op = "readBits"
    /\ reads[3].ret = <<1, 1, 1, 1, 1, 1, 1, 0, 0>>
    /\ ReadSoFar(3) = <<1, 1, 1, 1, 1, 1, 1, 1, 0, 0>>

\* C25: remaining() never increases.  Across every read and peek call made on
\* an Unpacker, successful or failed, remaining() after the call is at most
\* remaining() before it, and the bits still readable are the bits of the data
\* after the ones already passed: no call makes a bit it has passed readable
\* again.
C25_RemainingNeverIncreases ==
    [][ (phase = "unpack" /\ Len(reads') = Len(reads) + 1)
          => /\ remaining(unpacker') <= remaining(unpacker)
             /\ remaining(unpacker') >= 0
             /\ consumed' >= consumed
             /\ readBits(unpacker', remaining(unpacker')).ret
                    = Drop(SourceBits, 8 * Len(source) - remaining(unpacker'))
      ]_vars

\* the bytes 1, 2: remaining() is 16 after peek(9), 7 after readBits(9) and 0
\* after the readBits(9) that throws
C25_Witness ==
    /\ source = <<1, 2>>
    /\ Len(reads) = 3
    /\ reads[1].op = "peek"
    /\ reads[1].err = "none"
    /\ reads[2].op = "readBits"
    /\ reads[2].err = "none"
    /\ lastOp = "readBits"
    /\ lastArg = 9
    /\ err = "RangeError"
    /\ remaining(unpacker) = 0
    /\ consumed = 16

(***************************************************************************)
(* Properties of SpecBytes                                                 *)
(***************************************************************************)
RECURSIVE EachPutUint8(_)
\* putUint8 called on each element of s.bytes in order, from the Packer s.p
EachPutUint8(s) ==
    IF s.bytes = <<>> THEN s.p
    ELSE CHOOSE y \in {EachPutUint8([p |-> r.p, bytes |-> Tail(s.bytes)]) :
                        r \in {putUint8(s.p, Head(s.bytes))}} : TRUE

\* the integers of a sequence of byte values
Ints(bytes) == [i \in 1..Len(bytes) |-> bytes[i].lo]

\* the calls so far are one putBytes on a fresh Packer and what followed it
OnlyPutBytes == Len(fields) = 1 /\ fields[1].op = "putBytes" /\ stream = BytesBits(Ints(fields[1].arg))

\* C17: putBytes(B), B bytes in 0..255, leaves the Packer as putUint8 called
\* on each element of B in order leaves it; after putBytes(B) on a fresh
\* Packer getBuffer returns B, and readBytes(|B|) on an Unpacker constructed
\* from that buffer returns B.
C17_ByteArrayEquivalence ==
    [][ /\ (phase = "pack" /\ nOps' = nOps + 1 /\ lastOp' = "putBytes")
            => /\ err' = "none"
               /\ packer' = EachPutUint8([p |-> packer, bytes |-> lastArg'])
               /\ size(packer') = size(packer) + 8 * Len(lastArg')
        /\ (OnlyPutBytes /\ nOps = 1 /\ nOps' = 2 /\ lastOp' = "getBuffer")
            => err' = "none" /\ ret' = Ints(fields[1].arg)
        /\ (OnlyPutBytes /\ nOps = 2 /\ reads = <<>> /\ ReadStep("readBytes"))
            => /\ err' = "none"
               /\ lastArg' = Len(fields[1].arg)
               /\ ret' = <<fields[1].arg>>
      ]_vars

\* putBytes([1, 2, 3, 4, 255]) on a fresh Packer, getBuffer, and readBytes(5)
\* returning the five bytes
C17_Witness ==
    /\ OnlyPutBytes
    /\ nOps = 2
    /\ Ints(fields[1].arg) = <<1, 2, 3, 4, 255>>
    /\ source = <<1, 2, 3, 4, 255>>
    /\ lastOp = "readBytes"
    /\ lastArg = 5
    /\ err = "none"
    /\ ret = <<fields[1].arg>>

(***************************************************************************)
(* Properties of SpecFloat                                                 *)
(***************************************************************************)
\* Math.fround: the binary32 number nearest to num.  Of the sample numbers
\* only pi is no binary32 number; pi32 differs from it by less than 9e-8,
\* under 3e-8 of pi.
Fround(num) == IF num = "pi" THEN "pi32" ELSE num

\* this step is a call of the Packer method op
PackStep(op) == phase = "pack" /\ nOps' = nOps + 1 /\ lastOp' = op

\* C18: a number put by putFloat64 is returned by readFloat64 as it was put,
\* a number put by putFloat32 is returned by readFloat32 as the binary32
\* number nearest to it; putFloat32 emits 32 bits and putFloat64 64 bits, the
\* bits of the IEEE-754 big-endian bytes, each byte most significant bit
\* first.
C18_FloatRoundTrip ==
    [][ /\ PackStep("putFloat32")
            => /\ err' = "none"
               /\ size(packer') = size(packer) + 32
               /\ stream' = stream \o BytesBits(setFloat32(lastArg'))
        /\ PackStep("putFloat64")
            => /\ err' = "none"
               /\ size(packer') = size(packer) + 64
               /\ stream' = stream \o BytesBits(setFloat64(lastArg'))
        /\ (PackStep("getBuffer") /\ nGetBuffer = 0 /\ nGetBytes = 0)
            => ret' = PackedBytes(stream)
        /\ ReadStep("readFloat32")
            => /\ err' = "none"
               /\ ret' = <<Fround(NextField.arg)>>
        /\ ReadStep("readFloat64")
            => /\ err' = "none"
               /\ ret' = <<NextField.arg>>
      ]_vars

\* putBit(1), putFloat32(pi), putFloat64(2^-1074), then the reads: pi comes
\* back as the binary32 number nearest to it, the subnormal as it was put
C18_Witness ==
    /\ Len(fields) = 3
    /\ fields[1].op = "putBit"
    /\ fields[2].op = "putFloat32"
    /\ fields[2].arg = "pi"
    /\ fields[3].op = "putFloat64"
    /\ fields[3].arg = "min64"
    /\ Len(reads) = 3
    /\ reads[2].op = "readFloat32"
    /\ reads[2].ret = "pi32"
    /\ reads[3].op = "readFloat64"
    /\ reads[3].ret = "min64"
    /\ source = <<160, 36, 135, 237, 128, 0, 0, 0, 0, 0, 0, 0, 128>>

(***************************************************************************)
(* Properties of SpecExtract: the bit queue and size() after an extraction *)
(***************************************************************************)
\* C19: after getBytes or getBuffer returns, the bit queue of the Packer
\* holds no pending bit.
C19_NoPendingBitsAfterExtraction ==
    (lastOp \in Extractions /\ err = "none") => packer.bits = <<>>

\* C20 as stated: after any interleaving of puts with getBuffer and getBytes
\* calls, size() is the number of bits put so far.
C20_SizeIsBitsPut == size(packer) = Len(stream)

\* C20: size() is the number of bits put so far until the first getBytes call
\* or the first getBuffer call made with 1..7 bits pending; a getBuffer call
\* made on a byte boundary neither increases nor decreases size().
C20_SizeUntilPaddingOrGetBytes ==
    [][ /\ (nGetBytes' = 0 /\ pads' = 0) => size(packer') = Len(stream')
        /\ (PackStep("getBuffer") /\ Len(packer.bits) % 8 = 0)
            => size(packer') = size(packer)
      ]_vars

\* putBits of four bits twice, getBuffer on the byte boundary, then putBit(1):
\* no extraction has padded or consumed, and size() is the 9 bits put
C20_Witness ==
    /\ nOps = 4
    /\ nGetBuffer = 1
    /\ nGetBytes = 0
    /\ pads = 0
    /\ prevOp = "getBuffer"
    /\ lastOp = "putBit"
    /\ Len(stream) = 9
    /\ size(packer) = 9

(***************************************************************************)
(* Properties of SpecBuffer                                                *)
(***************************************************************************)
\* C26: byte-buffer cursor invariant.  After construction and after every
\* call made on a ResizableUint8Array (push, set, shift, iteration, compact,
\* clear, expand, in any order, the calls that throw included)
\* 0 <= read cursor <= write cursor <= capacity, and length is
\* write cursor - read cursor, the number of bytes appended and not yet taken.
C26_CursorInvariant ==
    calls # <<>> =>
        /\ 0 <= buffer.readPosition
        /\ buffer.readPosition <= buffer.writePosition
        /\ buffer.writePosition <= Len(buffer.inner)
        /\ length(buffer) = buffer.writePosition - buffer.readPosition
        /\ length(buffer) = Len(fifo)

\* a buffer constructed full with 8 bytes: push grows the store to 12, shift
\* moves the read cursor, compact moves the 8 unread bytes to the start of a
\* new store of 12
C26_Witness ==
    /\ calls = <<"new", "push", "shift", "compact">>
    /\ err = "none"
    /\ Len(prior.inner) = 12
    /\ prior.readPosition = 1
    /\ prior.writePosition = 9
    /\ Len(buffer.inner) = 12
    /\ buffer.readPosition = 0
    /\ buffer.writePosition = 8

\* the calls made after the construction are push, set and shift calls only
QueueCalls(cs) == \A i \in 2..Len(cs) : cs[i] \in {"push", "set", "shift"}

\* this step is a call of the buffer method op
BufferStep(op) == calls # <<>> /\ Len(calls') = Len(calls) + 1 /\ lastOp' = op

\* the shift calls this step makes: one, or the run on the long buffer
Shifts == IF calls = <<"new">> /\ Len(buffer.inner) > 512 THEN DrainLength ELSE 1

\* C27: the byte buffer refines a FIFO queue of bytes.  Over push, set and
\* shift calls, with growth of the store and compaction as they come, get()
\* is the bytes appended so far without the ones already shifted, in the
\* order they were appended, and nothing of the unused capacity; shift
\* returns the oldest byte, and returns undefined and moves no cursor when
\* none is left.
C27_FifoRefinement ==
    [][ (calls' # calls /\ QueueCalls(calls'))
          => /\ get(buffer') = fifo'
             /\ toArray(buffer') = fifo'
             /\ Len(get(buffer')) = buffer'.writePosition - buffer'.readPosition
             /\ BufferStep("shift")
                  => IF fifo = <<>>
                     THEN ret' = <<>> /\ buffer' = buffer
                     ELSE ret' = <<fifo[Shifts]>> /\ fifo' = Drop(fifo, Shifts)
      ]_vars

\* a buffer constructed from [7]: set([3, 4]) grows the store from 1 to 8,
\* the two shifts return 7 and 3, and get() is [4]
C27_Witness ==
    /\ calls = <<"new", "set", "shift", "shift">>
    /\ Len(prior.inner) = 8
    /\ prevRet = <<7>>
    /\ ret = <<3>>
    /\ fifo = <<4>>
    /\ get(buffer) = <<4>>
    /\ buffer.readPosition = 2

\* C28: compaction bounds the discarded prefix.  Over push, set and shift
\* calls the read cursor never exceeds 513.  A shift that finds the read
\* cursor above 512, and a byte to return, first copies the unread bytes to
\* the start of a new store of capacity max(floor(1.5 * length), 8), with the
\* read cursor at 0 and the write cursor at length, and then returns the byte
\* it would have returned without compaction and moves the read cursor past
\* it; a shift at a read cursor up to 512 keeps the store.
C28_CompactionBoundsPrefix ==
    [][ (calls' # calls /\ QueueCalls(calls'))
          => /\ buffer'.readPosition <= 513
             /\ (BufferStep("shift") /\ Shifts = 1 /\ ~isEmpty(buffer))
                  => IF buffer.readPosition > 512
                     THEN LET len == buffer.writePosition - buffer.readPosition
                              cap == IF (3 * len) \div 2 > 8 THEN (3 * len) \div 2 ELSE 8
                          IN  /\ Len(buffer'.inner) = cap
                              /\ SubSeq(buffer'.inner, 1, len) = get(buffer)
                              /\ \A i \in (len + 1)..cap : buffer'.inner[i] = 0
                              /\ buffer'.writePosition = len
                              /\ buffer'.readPosition = 1
                              /\ ret' = <<buffer.inner[buffer.readPosition + 1]>>
                     ELSE /\ buffer'.inner = buffer.inner
                          /\ buffer'.readPosition = buffer.readPosition + 1
                          /\ ret' = <<buffer.inner[buffer.readPosition + 1]>>
      ]_vars

\* 520 bytes, 513 of them shifted: the next shift moves the 7 bytes left to a
\* store of 10 and returns the 514th byte
C28_Witness ==
    /\ calls = <<"new", "shift", "shift">>
    /\ prior.readPosition = 513
    /\ Len(prior.inner) = 520
    /\ Len(buffer.inner) = 10
    /\ buffer.readPosition = 1
    /\ buffer.writePosition = 7
    /\ ret = <<LongSource[514]>>
    /\ fifo = SubSeq(LongSource, 515, 520)

\* an integer in 0..255
InByteRange(x) == x.frac = 0 /\ x.hi = 0 /\ x.lo \in 0..255

\* C29: byte validation is atomic.  push(v) with v not an integer in 0..255,
\* and set(s) with an element of s that is not an integer in 0..255, throw a
\* RangeError and leave the buffer as it was: same cursors, same capacity,
\* same contents, none of the elements of s written.  With valid bytes both
\* return.
C29_ValidationAtomic ==
    [][ /\ BufferStep("push")
            => IF InByteRange(lastArg')
               THEN err' = "none"
               ELSE err' = "RangeError" /\ buffer' = buffer /\ fifo' = fifo
        /\ BufferStep("set")
            => IF \A i \in 1..Len(lastArg') : InByteRange(lastArg'[i])
               THEN err' = "none"
               ELSE err' = "RangeError" /\ buffer' = buffer /\ fifo' = fifo
      ]_vars

\* a buffer constructed from [7], then push(200): set([5, -1, 6]) throws and
\* the buffer still holds 7, 200
C29_Witness ==
    /\ calls = <<"new", "push", "set">>
    /\ lastOp = "set"
    /\ Len(lastArg) = 3
    /\ lastArg[2] = FromInt(-1)
    /\ err = "RangeError"
    /\ buffer = prior
    /\ get(buffer) = <<7, 200>>

(***************************************************************************)
(* Properties of SpecGrow                                                  *)
(***************************************************************************)
\* C30: every operation terminates: expand always makes the capacity strictly
\* larger, the new capacity being max(floor(1.5 * capacity), 8), for every
\* capacity >= 0, so that the grow loop of set ends for every input length
\* with a store that holds the input.
C30_ExpandAlwaysGrows ==
    [][ /\ (calls # <<>> /\ lastOp' = "expand" /\ calls' = calls)
            => /\ err' = "none"
               /\ Less(capacity, capacity')
               /\ capacity' = (IF Less(Trunc(TimesOneAndHalf(capacity)), LengthOf(8))
                               THEN LengthOf(8)
                               ELSE Trunc(TimesOneAndHalf(capacity)))
        /\ (calls # <<>> /\ lastOp' = "set" /\ calls' # calls)
            => err' = "none" /\ GreaterEq(capacity', lastArg')
      ]_vars

(***************************************************************************)
(* Properties of SpecBits                                                  *)
(***************************************************************************)
\* the number of elements of a sequence before its first element that is
\* neither 0 nor 1: its length when all are bits
FirstInvalid(bits) ==
    IF \A i \in 1..Len(bits) : bits[i] \in Bit THEN Len(bits)
    ELSE (CHOOSE i \in 1..Len(bits) :
            bits[i] \notin Bit /\ \A j \in 1..(i - 1) : bits[j] \in Bit) - 1

\* the bits a Packer holds: those of its completed bytes, then the pending ones
HeldBits(p) == BytesBits(get(p.bytes)) \o p.bits

\* C31: putBits(s), s[i] the first element of s that is neither 0 nor 1, puts
\* s[0..i-1] (the Packer holds these bits after the ones it held, size() grows
\* by i, every completed byte is flushed) and throws an InvalidBitError; s[i]
\* and the elements after it are not put.  With bits only, all are put and
\* nothing is thrown.
C31_PutBitsSequential ==
    [][ (lastOp' = "putBits" /\ nOps' = nOps + 1)
            => /\ err' = IF FirstInvalid(lastArg') < Len(lastArg')
                         THEN "InvalidBitError" ELSE "none"
               /\ size(packer') = size(packer) + FirstInvalid(lastArg')
               /\ HeldBits(packer') =
                      HeldBits(packer) \o SubSeq(lastArg', 1, FirstInvalid(lastArg'))
               /\ Len(packer'.bits) = (Len(packer.bits) + FirstInvalid(lastArg')) % 8
               /\ length(packer'.bytes) =
                      length(packer.bytes) + (Len(packer.bits) + FirstInvalid(lastArg')) \div 8
      ]_vars

\* putBit(1), then putBits([1,0,1,1,0,0,1,0,1,1,2,0,3]) throws at the 2: the
\* ten bits before it are put, one byte completed, three bits pending
C31_Witness ==
    /\ lastOp = "putBits"
    /\ Len(lastArg) = 13
    /\ err = "InvalidBitError"
    /\ nOps = 2
    /\ Len(before.bits) = 1
    /\ toArray(packer.bytes) = <<217>>
    /\ packer.bits = <<0, 1, 1>>

(***************************************************************************)
(* Properties of SpecWire                                                  *)
(***************************************************************************)
\* the unsigned put of the width of each signed put, the signed reads and
\* the width each one reads
UnsignedPut == [putInt8 |-> "putUint8", putInt16 |-> "putUint16", putInt32 |-> "putUint32"]

SignedRead == [readInt8 |-> 8, readInt16 |-> 16, readInt32 |-> 32]

\* the number 8, 16 or 32 bits stand for in plain binary, the first bit the
\* most significant
BinaryValue(bits) ==
    CASE Len(bits) = 8  -> Num(0, ByteAt(bits, 1))
      [] Len(bits) = 16 -> Num(0, 256 * ByteAt(bits, 1) + ByteAt(bits, 2))
      [] Len(bits) = 32 -> Num(256 * ByteAt(bits, 1) + ByteAt(bits, 2),
                               256 * ByteAt(bits, 3) + ByteAt(bits, 4))

\* C32: for W in {8, 16, 32}, putIntW(x) with -2^(W-1) <= x < 0 does to the
\* Packer what putUintW(x + 2^W) does, and with 0 <= x <= 2^(W-1) - 1 what
\* putUintW(x) does, W bits emitted; readIntW on W bits of unsigned value u
\* returns u when the first of them is 0 and u - 2^W when it is 1.
C32_TwosComplementWire ==
    [][ /\ (nOps' = nOps + 1 /\ lastOp' \in DOMAIN UnsignedPut)
            => /\ err' = "none"
               /\ size(packer') = size(packer) + IntWidth[lastOp']
               /\ packer' =
                     PutOf(UnsignedPut[lastOp'], packer,
                           IF Less(lastArg', Zero)
                           THEN Add(lastArg', Pow2(IntWidth[lastOp']))
                           ELSE lastArg').p
        /\ (phase = "unpack" /\ Len(reads') = Len(reads) + 1
                /\ lastOp' \in DOMAIN SignedRead /\ err' = "none")
            => ret'[1] =
                 IF Upcoming(SignedRead[lastOp'])[1] = 0
                 THEN BinaryValue(Upcoming(SignedRead[lastOp']))
                 ELSE Sub(BinaryValue(Upcoming(SignedRead[lastOp'])),
                          Pow2(SignedRead[lastOp']))
      ]_vars

\* putBit(1), then putInt16(-300): the bits of 65236 follow the pending bit
C32_Witness ==
    /\ lastOp = "putInt16"
    /\ lastArg = FromInt(-300)
    /\ err = "none"
    /\ nOps = 2
    /\ before.bits = <<1>>
    /\ HeldBits(packer) = <<1>> \o Digits(65236, 16)

(***************************************************************************)
(* Properties of SpecErrors                                                *)
(***************************************************************************)
\* the methods of the Packer that take bits, and the ones that take numbers
BitPuts == {"putBit", "putBits"}

NumberPuts == {"putBytes", "putUint8", "putUint16", "putUint32",
               "putInt8", "putInt16", "putInt32", "putFloat32", "putFloat64"}

\* the bits a read needs to return
BitsNeeded(op, arg) ==
    CASE op = "readBit" -> 1
      [] op \in {"readBits", "peek"} -> arg
      [] op = "readBytes" -> 8 * arg
      [] op \in {"readUint8", "readInt8"} -> 8
      [] op \in {"readUint16", "readInt16"} -> 16
      [] op \in {"readUint32", "readInt32", "readFloat32"} -> 32
      [] op = "readFloat64" -> 64

\* the kind of the failure of the last call: an invalid bit, a number out
\* of range at a put, the data ending at a read, or something else
ErrorKind ==
    CASE err = "InvalidBitError" /\ lastOp \in BitPuts -> "invalid bit"
      [] err = "RangeError" /\ lastOp \in NumberPuts -> "range"
      [] err \in {"RangeError", "Error"} /\ phase = "unpack" /\ lastOp # "newUnpacker"
            -> "end of stream"
      [] OTHER -> "other"

\* C33 as stated: every failure of a call on a Packer or an Unpacker, the
\* construction of an Unpacker from an array holding a value outside 0..255
\* among them, is an invalid-bit error, a range error of a put or an
\* end-of-stream error of a read.
C33_ThreeErrorKinds ==
    err # "none" => ErrorKind \in {"invalid bit", "range", "end of stream"}

\* C33: a put of bits fails only with an InvalidBitError, a put of numbers
\* only with a RangeError, an extraction never, a read or a peek only with a
\* RangeError or an Error and only when fewer bits remain than it needs; the
\* construction of an Unpacker from an array fails exactly when an element is
\* no integer in 0..255, and then with a TypeError, a fourth kind.
C33_ErrorKinds ==
    [][ /\ (nOps' = nOps + 1 /\ err' # "none")
            => \/ lastOp' \in BitPuts /\ err' = "InvalidBitError"
               \/ lastOp' \in NumberPuts /\ err' = "RangeError"
        /\ (phase = "unpack" /\ Len(reads') = Len(reads) + 1 /\ err' # "none")
            => /\ err' = IF lastOp' = "peek" THEN "Error" ELSE "RangeError"
               /\ remaining(unpacker) < BitsNeeded(lastOp', lastArg')
        /\ (lastOp = "new" /\ lastOp' = "newUnpacker")
            => err' = IF \A i \in 1..Len(lastArg') : InByteRange(lastArg'[i])
                      THEN "none" ELSE "TypeError"
      ]_vars

\* new Unpacker([1, 256]) throws a TypeError
C33_Witness ==
    /\ lastOp = "newUnpacker"
    /\ Len(lastArg) = 2
    /\ lastArg[2] = FromInt(256)
    /\ err = "TypeError"
    /\ phase = "pack"

(***************************************************************************)
(* Properties of SpecPeek                                                  *)
(***************************************************************************)
\* C34 as stated: after any sequence of reads and peeks the bit queue of the
\* Unpacker holds at most 64 bits.
C34_QueueAtMost64 == phase = "unpack" => Len(unpacker.bits) <= 64

\* the length of the queue after peek(n) on a queue of q bits with enough
\* bytes behind it: q when q >= n, else q and whole bytes up to n or more
FilledTo(q, n) == IF q >= n THEN q ELSE q + 8 * ((n - q + 7) \div 8)

\* C34: a read leaves at most 7 bits in the queue, or fewer than it found
\* when it found more; peek(n) that returns leaves the queue with what it
\* held and the whole bytes needed to reach n bits, fewer than n + 8, and a
\* peek that throws leaves it with every bit that remained: the queue is
\* bounded by the largest peek, not by 64.
C34_QueueBoundedByPeek ==
    [][ (phase = "unpack" /\ Len(reads') = Len(reads) + 1)
            => IF lastOp' = "peek"
               THEN /\ err' = "none"
                        => /\ Len(unpacker'.bits) = FilledTo(Len(unpacker.bits), lastArg')
                           /\ Len(unpacker'.bits) < 8 + (IF lastArg' > Len(unpacker.bits)
                                                         THEN lastArg'
                                                         ELSE Len(unpacker.bits))
                    /\ err' # "none" => Len(unpacker'.bits) = remaining(unpacker)
               ELSE \/ Len(unpacker'.bits) <= 7
                    \/ Len(unpacker'.bits) < Len(unpacker.bits)
      ]_vars

\* readBit, then peek(100): the 7 bits left of the first byte and 12 bytes
\* more are queued, 103 bits
C34_Witness ==
    /\ lastOp = "peek"
    /\ lastArg = 100
    /\ err = "none"
    /\ Len(reads) = 2
    /\ reads[1].op = "readBit"
    /\ Len(unpacker.bits) = 103

(***************************************************************************)
(* Properties of SpecExact                                                 *)
(***************************************************************************)
\* C35: every number passed to putUint8/16/32 or putInt8/16/32, one that is
\* no integer too, is either refused with a RangeError or encoded so that the
\* matching read returns exactly that number; none is stored as a different
\* number.
C35_NoSilentTruncation ==
    /\ (phase = "pack" /\ nOps = 1 /\ lastOp \in UintPuts \cup IntPuts)
            => err \in {"none", "RangeError"}
    /\ \A i \in 1..Len(reads) :
          /\ reads[i].err = "none"
          /\ reads[i].ret = fields[i].arg

====
